---------------------------- MODULE Spec2Model ----------------------------
(***************************************************************************)
(* A model of SupaConsole's provisioning core: src/lib/cloudflared.ts (DNS *)
(* record and tunnel ingress reconciliation) and src/lib/project.ts (the   *)
(* project lifecycle: create, update, deploy, pause, delete).              *)
(*                                                                         *)
(* JavaScript strings on which the code works character by character       *)
(* (names, slugs, hostnames) are sequences of one-character strings;       *)
(* literal chunks that the code only concatenates and compares (URL        *)
(* schemes, the 404 service) are single elements of such sequences.        *)
(* A thrown Error is its message, a tuple of string parts.                 *)
(***************************************************************************)
EXTENDS Integers, Sequences, FiniteSets, TLC

VARIABLES
    projects,    \* Project Store: project id -> Project row, or NoRow
    envRows,     \* Project Store: project id -> (key -> value) EnvVar rows
    projDir,     \* filesystem: project id -> the state of the project directory
    containers,  \* container runtime: project id -> "none" | "running" | "stopped"
    zone,        \* DNS provider: the set of CNAME records of the zone
    cfgFile,     \* the tunnel daemon's ingress configuration document
    env,         \* process.env, the configuration the core consumes
    lastOp,      \* the public operation that produced this state, with its arguments
    result,      \* what that operation returned (or the fault that escaped it)
    log,         \* the external calls that operation made, in order, each with its outcome
    pc,          \* each caller's position in the function it runs
    snap         \* each caller's locals (its arguments, what it read, what it computed)

storeVars == <<projects, envRows>>
hostVars  == <<projDir, containers>>
netVars   == <<zone, cfgFile>>
obsVars   == <<lastOp, result, log>>
raceVars  == <<pc, snap>>
vars == <<projects, envRows, projDir, containers, zone, cfgFile, env,
          lastOp, result, log, pc, snap>>

-----------------------------------------------------------------------------
(* Bounds of the model *)

\* how many rules an initial ingress document holds at most
MaxRules == 2

-----------------------------------------------------------------------------
(* Strings *)

UpperLetters == <<"A","B","C","D","E","F","G","H","I","J","K","L","M",
                  "N","O","P","Q","R","S","T","U","V","W","X","Y","Z">>
LowerLetters == <<"a","b","c","d","e","f","g","h","i","j","k","l","m",
                  "n","o","p","q","r","s","t","u","v","w","x","y","z">>
DigitChars   == <<"0","1","2","3","4","5","6","7","8","9">>

Range(s) == {s[i] : i \in DOMAIN s}

\* String.prototype.toLowerCase, one character
ToLowerChar(c) ==
    IF \E i \in DOMAIN UpperLetters : UpperLetters[i] = c
    THEN LowerLetters[CHOOSE i \in DOMAIN UpperLetters : UpperLetters[i] = c]
    ELSE c

\* a code unit outside ASCII is written by its code point: "U+0130" is the
\* capital I with dot above, "U+0307" the combining dot above
LowerOf(c) == IF c = "U+0130" THEN <<"i", "U+0307">> ELSE <<ToLowerChar(c)>>

\* String.prototype.toLowerCase: each code unit is replaced by its lower-case
\* form, which for U+0130 is two code units long
RECURSIVE ToLowerCase(_)
ToLowerCase(s) ==
    IF s = <<>> THEN <<>> ELSE LowerOf(Head(s)) \o ToLowerCase(Tail(s))

\* String.prototype.trim (the blank character is " ")
RECURSIVE TrimLeft(_)
TrimLeft(s) == IF s # <<>> /\ Head(s) = " " THEN TrimLeft(Tail(s)) ELSE s
RECURSIVE TrimRight(_)
TrimRight(s) ==
    IF s # <<>> /\ s[Len(s)] = " " THEN TrimRight(SubSeq(s, 1, Len(s) - 1)) ELSE s
Trim(s) == TrimRight(TrimLeft(s))

\* Number.prototype.toString of a natural number
RECURSIVE ToDigits(_)
ToDigits(n) ==
    IF n < 10 THEN <<DigitChars[n + 1]>>
    ELSE Append(ToDigits(n \div 10), DigitChars[(n % 10) + 1])

DigitValue(c) == (CHOOSE i \in DOMAIN DigitChars : DigitChars[i] = c) - 1

\* the longest prefix of s made of decimal digits
RECURSIVE DigitPrefix(_)
DigitPrefix(s) ==
    IF s # <<>> /\ Head(s) \in Range(DigitChars)
    THEN <<Head(s)>> \o DigitPrefix(Tail(s))
    ELSE <<>>

RECURSIVE DigitsValue(_)
DigitsValue(d) ==
    IF d = <<>> THEN 0
    ELSE 10 * DigitsValue(SubSeq(d, 1, Len(d) - 1)) + DigitValue(d[Len(d)])

\* a JavaScript number | NaN | undefined
Num(n)    == [kind |-> "num", val |-> n]
NaN       == [kind |-> "nan", val |-> 0]
Undefined == [kind |-> "undefined", val |-> 0]
Truthy(v) == v.kind = "num" /\ v.val # 0

\* parseInt(s, 10): leading blanks are skipped, then the digits are read
ParseInt(s) ==
    LET d == DigitPrefix(TrimLeft(s))
    IN  IF d = <<>> THEN NaN ELSE Num(DigitsValue(d))

\* the characters /[a-z0-9-]/ matches
SlugChars == Range(LowerLetters) \cup Range(DigitChars) \cup {"-"}

\* input.toLowerCase().replace(/[^a-z0-9-]/g, '-')
sanitizeSlug_keepsUnderscore(input) ==
    LET lower == ToLowerCase(input)
    IN  [i \in DOMAIN lower |->
            IF lower[i] \in SlugChars \cup {"_"} THEN lower[i] ELSE "-"]

sanitizeSlug(input) ==
    LET lower == ToLowerCase(input)
    IN  [i \in DOMAIN lower |->
            IF lower[i] \in SlugChars THEN lower[i] ELSE "-"]

-----------------------------------------------------------------------------
(* Completions: what an async function did to the world and how it ended *)

\* the world an operation works on: the store, the host, the network, its call log
World == [projects |-> projects, envRows |-> envRows, projDir |-> projDir,
          containers |-> containers, zone |-> zone, cfgFile |-> cfgFile,
          log |-> <<>>]

Ok(w, v)    == [ok |-> TRUE, w |-> w, val |-> v, err |-> <<>>]
Throw(w, e) == [ok |-> FALSE, w |-> w, val |-> <<>>, err |-> e]

\* An external call (a request, a command, a file or store access) and its outcome.
\* f is the set of calls of the run that are made to fail, each named by its place
\* in the run; a call also fails when the world does not let it succeed (can).
CallIf(w, c, arg, f, can) ==
    [w EXCEPT !.log = Append(@, [call |-> c, arg |-> arg,
                                 ok |-> can /\ (Len(@) + 1) \notin f])]
Call(w, c, arg, f) == CallIf(w, c, arg, f, TRUE)

\* whether the call just made failed
Failed(w) == ~w.log[Len(w.log)].ok

\* faulty variant: the catch raises again
Swallow_rethrows(c) == c

\* try { ... } catch (e) { console.warn(...) }
Swallow(c) == Ok(c.w, <<>>)

\* const c = await ...; the rest K of the function runs unless c raised
Then(c, K(_)) == IF c.ok THEN K(c) ELSE c

\* await of one external call: it raises err when the call fails, else the world
\* changes as Effect says
Step(w, c, arg, f, can, err, Effect(_)) ==
    LET w1 == CallIf(w, c, arg, f, can)
    IN  IF Failed(w1) THEN Throw(w1, err) ELSE Ok(Effect(w1), <<>>)

\* try { await <one external call> } catch { }
Attempt(w, c, arg, f, can, Effect(_)) ==
    LET w1 == CallIf(w, c, arg, f, can)
    IN  IF Failed(w1) THEN Ok(w1, FALSE) ELSE Ok(Effect(w1), TRUE)

Same(w) == w

\* The calls of a run that may be made to fail next: those that succeeded after the
\* last one made to fail.  Every combination of failing calls that a run can meet is
\* reached by failing one more call at a time.  (reloadCloudflared cannot fail; the
\* entries of the two exposure functions record that they were invoked.)
NextFaults(l, f) ==
    {i \in DOMAIN l :
        /\ \A j \in f : j < i
        /\ l[i].ok
        /\ l[i].call \notin
              {"reloadCloudflared", "ensureProjectPublicExposure", "cleanupProjectExposure"}}

-----------------------------------------------------------------------------
(* Process environment *)

Unset == <<>>

\* the tunnel identifier, the base domain and the service-target literals
TunnelUuid    == <<"u","1">>
BaseDomain    == <<"b",".","i","o">>
ProxyUrl      == <<"http://proxy:8080">>
KongUrl       == <<"http://kong:8000">>
Http404       == <<"http_status:404">>
TunnelSuffix  == <<".cfargotunnel.com">>

FullEnv == [BASE_DOMAIN |-> BaseDomain, CF_TUNNEL_UUID |-> TunnelUuid,
            CF_API_TOKEN |-> <<"t">>, CF_ZONE_ID |-> <<"z">>,
            INTERNAL_REVERSE_PROXY_URL |-> Unset]

\* the configurations the process may run under
EnvConfigs ==
    { FullEnv,
      [FullEnv EXCEPT !.INTERNAL_REVERSE_PROXY_URL = ProxyUrl],
      [FullEnv EXCEPT !.INTERNAL_REVERSE_PROXY_URL = <<" ">>],
      [FullEnv EXCEPT !.BASE_DOMAIN = Unset],
      [FullEnv EXCEPT !.CF_TUNNEL_UUID = Unset],
      [FullEnv EXCEPT !.CF_API_TOKEN = Unset] }

getEnvOrThrow(w, key) ==
    IF env[key] = Unset
    THEN Throw(w, <<"Missing required environment variable: ", key>>)
    ELSE Ok(w, env[key])

-----------------------------------------------------------------------------
(* DNS provider: CNAME records [id, name, content, proxied] *)

\* the records the list-by-name request returns
DnsByName(z, hostname) == {r \in z : r.name = hostname}

\* result[0] of the list response
DnsFirst(z, hostname) ==
    CHOOSE r \in DnsByName(z, hostname) :
        \A o \in DnsByName(z, hostname) : r.id <= o.id

\* the id the provider gives a new record
DnsFreshId(z) == CHOOSE i \in 1..(Cardinality(z) + 1) : \A r \in z : r.id # i

CnameRecord(id, hostname, target) ==
    [id |-> id, name |-> hostname, content |-> target, proxied |-> TRUE]

ApiError(what) == <<"Cloudflare API error (", what, " DNS): ", "status body">>

\* faulty variant: a record that is not proxied is left as it is
ensureCloudflareCname_ignoresProxied(w, hostname, target, f) ==
    LET token    == getEnvOrThrow(w, "CF_API_TOKEN")
        zoneId   == getEnvOrThrow(w, "CF_ZONE_ID")
        w1       == Call(w, "GET dns_records", hostname, f)
        exists   == DnsByName(w.zone, hostname) # {}
        existing == DnsFirst(w.zone, hostname)
        w2u      == Call(w1, "PUT dns_records", hostname, f)
        w2c      == Call(w1, "POST dns_records", hostname, f)
    IN  IF ~token.ok THEN token
        ELSE IF ~zoneId.ok THEN zoneId
        ELSE IF Failed(w1) THEN Throw(w1, ApiError("list"))
        ELSE IF exists
        THEN IF existing.content # target
             THEN IF Failed(w2u) THEN Throw(w2u, ApiError("update"))
                  ELSE Ok([w2u EXCEPT !.zone = (@ \ {existing}) \cup
                              {CnameRecord(existing.id, hostname, target)}], <<>>)
             ELSE Ok(w1, <<>>)
        ELSE IF Failed(w2c) THEN Throw(w2c, ApiError("create"))
             ELSE Ok([w2c EXCEPT !.zone = @ \cup
                         {CnameRecord(DnsFreshId(w.zone), hostname, target)}], <<>>)

ensureCloudflareCname(w, hostname, target, f) ==
    LET token    == getEnvOrThrow(w, "CF_API_TOKEN")
        zoneId   == getEnvOrThrow(w, "CF_ZONE_ID")
        w1       == Call(w, "GET dns_records", hostname, f)
        exists   == DnsByName(w.zone, hostname) # {}
        existing == DnsFirst(w.zone, hostname)
        w2u      == Call(w1, "PUT dns_records", hostname, f)
        w2c      == Call(w1, "POST dns_records", hostname, f)
    IN  IF ~token.ok THEN token
        ELSE IF ~zoneId.ok THEN zoneId
        ELSE IF Failed(w1) THEN Throw(w1, ApiError("list"))
        ELSE IF exists
        THEN IF existing.content # target \/ existing.proxied # TRUE
             THEN IF Failed(w2u) THEN Throw(w2u, ApiError("update"))
                  ELSE Ok([w2u EXCEPT !.zone = (@ \ {existing}) \cup
                              {CnameRecord(existing.id, hostname, target)}], <<>>)
             ELSE Ok(w1, <<>>)
        ELSE IF Failed(w2c) THEN Throw(w2c, ApiError("create"))
             ELSE Ok([w2c EXCEPT !.zone = @ \cup
                         {CnameRecord(DnsFreshId(w.zone), hostname, target)}], <<>>)

deleteCloudflareCname(w, hostname, f) ==
    LET token  == getEnvOrThrow(w, "CF_API_TOKEN")
        zoneId == getEnvOrThrow(w, "CF_ZONE_ID")
        w1     == Call(w, "GET dns_records", hostname, f)
        exists == DnsByName(w.zone, hostname) # {}
        w2     == Call(w1, "DELETE dns_records", hostname, f)
    IN  IF ~token.ok THEN token
        ELSE IF ~zoneId.ok THEN zoneId
        ELSE IF Failed(w1) THEN Throw(w1, ApiError("list"))
        ELSE IF ~exists THEN Ok(w1, <<>>)
        ELSE IF Failed(w2) THEN Throw(w2, ApiError("delete"))
        ELSE Ok([w2 EXCEPT !.zone = @ \ {DnsFirst(w.zone, hostname)}], <<>>)

-----------------------------------------------------------------------------
(* Tunnel ingress document *)

\* An ingress rule; a rule without a hostname has hostname = <<>>.
Rule(h, s)   == [hostname |-> h, service |-> s]
CatchAll404  == Rule(<<>>, Http404)

\* The parsed document: tunnel = <<>> when absent, hasIngress = Array.isArray(ingress)
Doc(t, has, rules) == [tunnel |-> t, hasIngress |-> has, ingress |-> rules]
EmptyDoc  == Doc(<<>>, FALSE, <<>>)
NoFile    == [present |-> FALSE, doc |-> EmptyDoc]
File(doc) == [present |-> TRUE, doc |-> doc]

\* readYamlFile: {} when the file is missing or cannot be read or parsed
readYamlFile(w, f) ==
    LET w1 == CallIf(w, "readFile config.yml", <<>>, f, w.cfgFile.present)
    IN  IF Failed(w1) THEN Ok(w1, EmptyDoc) ELSE Ok(w1, w.cfgFile.doc)

writeYamlFile(w, data, f) ==
    LET w1 == Call(w, "writeFile config.yml", <<>>, f)
    IN  IF Failed(w1)
        THEN Throw(w1, <<"EACCES: permission denied, open config.yml">>)
        ELSE Ok([w1 EXCEPT !.cfgFile = File(data)], <<>>)

ensureCatchAll404(ingress) ==
    LET Not404(r) == ~(r.service = Http404)
    IN  Append(SelectSeq(ingress, Not404), CatchAll404)

\* faulty variant: the rules of the hostname are kept
WithoutHost_keepsAll(ingress, hostname) == ingress

\* the rule filter of ensureTunnelIngress and removeTunnelIngress
WithoutHost(ingress, hostname) ==
    LET Other(r) == ~(r.hostname # <<>> /\ ToLowerCase(r.hostname) = ToLowerCase(hostname))
    IN  SelectSeq(ingress, Other)

\* cloudflared tunnel ingress validate: -f first, --config when that fails
validateIngress(w, f) ==
    LET w1 == Call(w, "validate -f", <<>>, f)
        w2 == Call(w1, "validate --config", <<>>, f)
    IN  IF ~Failed(w1) THEN Ok(w1, <<>>)
        ELSE IF ~Failed(w2) THEN Ok(w2, <<>>)
        ELSE Throw(w2, <<"Command failed: cloudflared tunnel ingress validate">>)

\* reloadCloudflared: every step is a tryExec, so it never throws
reloadCloudflared(w, f) == Ok(Call(w, "reloadCloudflared", <<>>, {}), <<>>)

\* the document ensureTunnelIngress writes, from the document it read
ensuredDoc(config, hostname, serviceUrl, tunnelUuid) ==
    LET tunnel  == IF config.tunnel = <<>> \/ config.tunnel # tunnelUuid
                   THEN tunnelUuid ELSE config.tunnel
        ingress == IF ~config.hasIngress THEN <<>> ELSE config.ingress
        pushed  == Append(WithoutHost(ingress, hostname), Rule(hostname, serviceUrl))
    IN  Doc(tunnel, TRUE, ensureCatchAll404(pushed))

\* the document removeTunnelIngress writes, from the document it read
removedDoc(config, hostname) ==
    [config EXCEPT !.ingress = ensureCatchAll404(WithoutHost(config.ingress, hostname))]

\* faulty variant: the daemon is reloaded whatever validation said
writeValidateReload_reloadsUnvalidated(w, data, f) ==
    LET wr == writeYamlFile(w, data, f)
        va == validateIngress(wr.w, f)
    IN  IF ~wr.ok THEN wr
        ELSE reloadCloudflared(va.w, f)

\* writeYamlFile, then validate, then reload
writeValidateReload(w, data, f) ==
    LET wr == writeYamlFile(w, data, f)
        va == validateIngress(wr.w, f)
    IN  IF ~wr.ok THEN wr
        ELSE IF ~va.ok THEN va
        ELSE reloadCloudflared(va.w, f)

ensureTunnelIngress(w, hostname, serviceUrl, tunnelUuid, f) ==
    LET config == readYamlFile(w, f)
    IN  writeValidateReload(config.w,
            ensuredDoc(config.val, hostname, serviceUrl, tunnelUuid), f)

removeTunnelIngress(w, hostname, tunnelUuid, f) ==
    LET config == readYamlFile(w, f)
    IN  IF config.val.hasIngress
        THEN writeValidateReload(config.w, removedDoc(config.val, hostname), f)
        ELSE Ok(config.w, <<>>)

-----------------------------------------------------------------------------
(* Exposure *)

ExposureArg(name, slug, port, url) ==
    [projectName |-> name, projectSlug |-> slug, port |-> port, internalUrl |-> url]

\* `${projectSlug}.${baseDomain}`
Hostname(projectSlug, baseDomain) == projectSlug \o <<".">> \o baseDomain

\* s && s.trim().length > 0
NonBlank(s) == s # <<>> /\ Trim(s) # <<>>

\* faulty variant: the configured proxy is looked at first
serviceUrlOf_proxyFirst(args) ==
    IF NonBlank(env.INTERNAL_REVERSE_PROXY_URL) THEN env.INTERNAL_REVERSE_PROXY_URL
    ELSE IF NonBlank(args.internalUrl) THEN args.internalUrl
    ELSE IF Truthy(args.port) THEN <<"http://127.0.0.1:">> \o ToDigits(args.port.val)
    ELSE <<>>

\* the service target: internalUrl, else the configured proxy, else the port
serviceUrlOf(args) ==
    IF NonBlank(args.internalUrl) THEN args.internalUrl
    ELSE IF NonBlank(env.INTERNAL_REVERSE_PROXY_URL) THEN env.INTERNAL_REVERSE_PROXY_URL
    ELSE IF Truthy(args.port) THEN <<"http://127.0.0.1:">> \o ToDigits(args.port.val)
    ELSE <<>>

\* args.projectSlug || args.projectName
SlugOrName(args) ==
    IF args.projectSlug # <<>> THEN args.projectSlug ELSE args.projectName

ensureProjectPublicExposure(w, args, f) ==
    LET baseDomain  == getEnvOrThrow(w, "BASE_DOMAIN")
        tunnelUuid  == getEnvOrThrow(w, "CF_TUNNEL_UUID")
        hostname    == Hostname(sanitizeSlug(SlugOrName(args)), baseDomain.val)
        serviceUrl  == serviceUrlOf(args)
        target      == tunnelUuid.val \o TunnelSuffix
        dns         == ensureCloudflareCname(w, hostname, target, f)
        ing         == ensureTunnelIngress(dns.w, hostname, serviceUrl, tunnelUuid.val, f)
    IN  IF ~baseDomain.ok THEN baseDomain
        ELSE IF ~tunnelUuid.ok THEN tunnelUuid
        ELSE IF serviceUrl = <<>>
        THEN Throw(w, <<"Cannot determine service URL: provide internalUrl or port">>)
        ELSE IF ~dns.ok THEN dns
        ELSE IF ~ing.ok THEN ing
        ELSE Ok(ing.w, [hostname |-> hostname,
                        publicUrl |-> <<"https://">> \o hostname])

cleanupProjectExposure(w, args, f) ==
    LET baseDomain  == getEnvOrThrow(w, "BASE_DOMAIN")
        tunnelUuid  == getEnvOrThrow(w, "CF_TUNNEL_UUID")
        hostname    == Hostname(sanitizeSlug(SlugOrName(args)), baseDomain.val)
        dns         == Swallow(deleteCloudflareCname(w, hostname, f))
        ing         == Swallow(removeTunnelIngress(dns.w, hostname, tunnelUuid.val, f))
    IN  IF ~baseDomain.ok THEN baseDomain
        ELSE IF ~tunnelUuid.ok THEN tunnelUuid
        ELSE IF SlugOrName(args) = <<>>
        THEN Throw(w, <<"cleanupProjectExposure requires projectSlug or projectName">>)
        ELSE ing

-----------------------------------------------------------------------------
(* Project Store, project directory, container runtime *)

ProjectIds == {"p1"}

\* Project.status of a row created without one (schema default)
DefaultStatus == "created"

\* no row was ever created under this id / the row was deleted (ids are never reused)
NoRow   == [exists |-> FALSE, name |-> <<>>, slug |-> <<>>, status |-> "none"]
Removed == [exists |-> FALSE, name |-> <<>>, slug |-> <<>>, status |-> "removed"]
Row(name, slug) ==
    [exists |-> TRUE, name |-> name, slug |-> slug, status |-> DefaultStatus]

\* an EnvVar row, or a KEY=value line of the environment file
KV(k, v) == [key |-> k, value |-> v]
Lookup(rows, k) ==
    IF \E r \in rows : r.key = k THEN (CHOOSE r \in rows : r.key = k).value ELSE <<>>
Upsert(rows, k, v) == {r \in rows : r.key # k} \cup {KV(k, v)}

\* the project directory: whether it exists, whether docker/docker-compose.yml
\* exists, whether that file carries the project's container names, whether its
\* host ports are variables, and the docker/.env file
NoEnvFile == [present |-> FALSE, vars |-> {}]
NoDir == [dir |-> FALSE, compose |-> FALSE, renamed |-> FALSE, ported |-> FALSE,
          envFile |-> NoEnvFile]

\* the message of an Error raised by a failed external call
Fault(c) == <<"failed: ", c>>

\* faulty variant: the catch raises again
Caught_rethrows(c, value) == IF c.ok THEN Ok(c.w, value) ELSE c

\* try { ... return value } catch (error) { return { success: false, error: message } }
Caught(c, value) ==
    IF c.ok THEN Ok(c.w, value)
    ELSE Ok(c.w, [success |-> FALSE, error |-> c.err])

\* prisma.project.findUnique, then `if (!project) throw new Error('Project not found')`
findProject(w, id, f) ==
    Then(Step(w, "project.findUnique", <<id>>, f, TRUE, Fault("project.findUnique"), Same),
         LAMBDA c : IF ~c.w.projects[id].exists
                    THEN Throw(c.w, <<"Project not found">>)
                    ELSE Ok(c.w, c.w.projects[id]))

\* prisma.project.update({ data: { status } })
updateStatus(w, id, status, f) ==
    Step(w, "project.update", <<id, status>>, f, w.projects[id].exists,
         Fault("project.update"),
         LAMBDA u : [u EXCEPT !.projects[id].status = status])

\* faulty variant: the row is not written
upsertEnvVar_storesNothing(w, id, k, v, f) ==
    Step(w, "projectEnvVar.upsert", <<id, k>>, f, w.projects[id].exists,
         Fault("projectEnvVar.upsert"), Same)

upsertEnvVar(w, id, k, v, f) ==
    Step(w, "projectEnvVar.upsert", <<id, k>>, f, w.projects[id].exists,
         Fault("projectEnvVar.upsert"),
         LAMBDA u : [u EXCEPT !.envRows[id] = Upsert(@, k, v)])

\* for (const [key, value] of Object.entries(envVars)) await upsert(...)
RECURSIVE upsertEnvVars(_, _, _, _)
upsertEnvVars(w, id, kvs, f) ==
    IF kvs = <<>> THEN Ok(w, <<>>)
    ELSE LET c == upsertEnvVar(w, id, Head(kvs).key, Head(kvs).value, f)
         IN  IF ~c.ok THEN c ELSE upsertEnvVars(c.w, id, Tail(kvs), f)

\* for (const [key, value] of Object.entries(defaultEnvVars)) await create(...)
RECURSIVE createEnvVars(_, _, _, _)
createEnvVars(w, id, kvs, f) ==
    IF kvs = <<>> THEN Ok(w, <<>>)
    ELSE LET c == Step(w, "projectEnvVar.create", <<id, Head(kvs).key>>, f,
                       /\ w.projects[id].exists
                       /\ \A r \in w.envRows[id] : r.key # Head(kvs).key,
                       Fault("projectEnvVar.create"),
                       LAMBDA u : [u EXCEPT !.envRows[id] = @ \cup {Head(kvs)}])
         IN  IF ~c.ok THEN c ELSE createEnvVars(c.w, id, Tail(kvs), f)

\* faulty variant: the given pairs are merged into the file
writeEnvFile_merges(w, id, kvs, f) ==
    Step(w, "writeFile .env", <<id>>, f, w.projDir[id].compose, Fault("writeFile .env"),
         LAMBDA u : [u EXCEPT !.projDir[id].envFile =
                        [present |-> TRUE,
                         vars |-> {r \in @.vars : \A kv \in Range(kvs) : kv.key # r.key}
                                     \cup Range(kvs)]])

\* Object.entries(envVars).map(([key, value]) => `${key}=${value}`).join('\n'),
\* written over docker/.env
writeEnvFile(w, id, kvs, f) ==
    Step(w, "writeFile .env", <<id>>, f, w.projDir[id].compose, Fault("writeFile .env"),
         LAMBDA u : [u EXCEPT !.projDir[id].envFile =
                        [present |-> TRUE, vars |-> Range(kvs)]])

\* the host port mappings of the compose file become variables; nothing is
\* written when the file already has them
patchComposePorts(w, id, f) ==
    Then(Step(w, "readFile docker-compose.yml", <<id>>, f, w.projDir[id].compose,
              Fault("readFile docker-compose.yml"), Same),
         LAMBDA c : IF c.w.projDir[id].ported THEN c
                    ELSE Step(c.w, "writeFile docker-compose.yml", <<id>>, f, TRUE,
                              Fault("writeFile docker-compose.yml"),
                              LAMBDA u : [u EXCEPT !.projDir[id].ported = TRUE]))

-----------------------------------------------------------------------------
(* createProject, updateProjectEnvVars *)

\* `${name.toLowerCase().replace(/[^a-z0-9]/g, '-')}-${timestamp}`
slugOf(name, timestamp) ==
    LET lower == ToLowerCase(name)
    IN  [i \in DOMAIN lower |->
            IF lower[i] \in Range(LowerLetters) \cup Range(DigitChars)
            THEN lower[i] ELSE "-"]
        \o <<"-">> \o ToDigits(timestamp)

\* the port entries of defaultEnvVars, in the order the object literal lists them
defaultEnvVars(timestamp) ==
    LET basePort == 8000 + (timestamp % 10000)
    IN  << KV("POSTGRES_PORT", ToDigits(basePort + 2000)),
           KV("POOLER_PROXY_PORT_TRANSACTION", ToDigits(basePort + 3000)),
           KV("KONG_HTTP_PORT", ToDigits(basePort)),
           KV("KONG_HTTPS_PORT", ToDigits(basePort + 443)),
           KV("ANALYTICS_PORT", ToDigits(basePort + 1000)),
           KV("STUDIO_PORT", ToDigits(basePort + 100)) >>

createProjectBody(w, id, name, timestamp, f) ==
    Then(Step(w, "project.create", <<id>>, f, TRUE, Fault("project.create"),
              LAMBDA u : [u EXCEPT !.projects[id] = Row(name, slugOf(name, timestamp))]),
    LAMBDA project :
    Then(Step(project.w, "mkdir projectDir", <<id>>, f, TRUE, Fault("mkdir projectDir"),
              LAMBDA u : [u EXCEPT !.projDir[id].dir = TRUE]),
    LAMBDA made :
    Then(Step(made.w, "cp -r docker", <<id>>, f, TRUE, Fault("cp -r docker"),
              LAMBDA u : [u EXCEPT !.projDir[id].compose = TRUE]),
    LAMBDA copied :
    Then(Step(copied.w, "readFile docker-compose.yml", <<id>>, f, TRUE,
              Fault("readFile docker-compose.yml"), Same),
    LAMBDA content :
    Then(Step(content.w, "writeFile docker-compose.yml", <<id>>, f, TRUE,
              Fault("writeFile docker-compose.yml"),
              LAMBDA u : [u EXCEPT !.projDir[id].renamed = TRUE]),
    LAMBDA written :
    Then(patchComposePorts(written.w, id, f),
    LAMBDA patch :
    Then(writeEnvFile(patch.w, id, defaultEnvVars(timestamp), f),
    LAMBDA file :
    Then(createEnvVars(file.w, id, defaultEnvVars(timestamp), f),
    LAMBDA rows : Ok(rows.w, rows.w.projects[id])))))))))

createProject(w, id, name, timestamp, f) ==
    LET c == createProjectBody(w, id, name, timestamp, f)
    IN  Caught(c, [success |-> TRUE, project |-> c.val])

updateProjectEnvVarsBody(w, id, envVars, f) ==
    Then(findProject(w, id, f),
    LAMBDA project :
    Then(upsertEnvVars(project.w, id, envVars, f),
    LAMBDA rows : writeEnvFile(rows.w, id, envVars, f)))

updateProjectEnvVars(w, id, envVars, f) ==
    Caught(updateProjectEnvVarsBody(w, id, envVars, f), [success |-> TRUE])

-----------------------------------------------------------------------------
(* deployProject *)

\* the connectivity probes, in the order they are tried
Probes == << <<"curl --head", "https://www.google.com">>,
             <<"curl --head", "https://1.1.1.1">>,
             <<"curl --head", "https://8.8.8.8">>,
             <<"nslookup", "google.com">>,
             <<"ping", "8.8.8.8">>,
             <<"docker pull", "alpine:latest">> >>

\* the first probe that succeeds ends the check with true
RECURSIVE tryProbes(_, _, _)
tryProbes(w, probes, f) ==
    IF probes = <<>> THEN Ok(w, FALSE)
    ELSE LET c == Attempt(w, Head(probes)[1], <<Head(probes)[2]>>, f, TRUE, Same)
         IN  IF c.val THEN c ELSE tryProbes(c.w, Tail(probes), f)

\* faulty variant: every probe is run, the last one decides
checkInternetConnectivity_lastDecides(w, f) ==
    LET c == tryProbes(w, SubSeq(Probes, 1, Len(Probes) - 1), f)
    IN  tryProbes(c.w, SubSeq(Probes, Len(Probes), Len(Probes)), f)

checkInternetConnectivity(w, f) == tryProbes(w, Probes, f)

\* faulty variant: the runtime and the compose CLI are reported present
checkDockerPrerequisites_alwaysReady(w, f) ==
    Then(Attempt(w, "docker --version", <<>>, f, TRUE, Same),
    LAMBDA docker :
    Then(Attempt(docker.w, "docker compose version", <<>>, f, TRUE, Same),
    LAMBDA dockerCompose :
    Then(checkInternetConnectivity(dockerCompose.w, f),
    LAMBDA net : Ok(net.w, [docker |-> TRUE,
                            dockerCompose |-> TRUE,
                            internetConnection |-> net.val]))))

checkDockerPrerequisites(w, f) ==
    Then(Attempt(w, "docker --version", <<>>, f, TRUE, Same),
    LAMBDA docker :
    Then(Attempt(docker.w, "docker compose version", <<>>, f, TRUE, Same),
    LAMBDA dockerCompose :
    Then(checkInternetConnectivity(dockerCompose.w, f),
    LAMBDA net : Ok(net.w, [docker |-> docker.val,
                            dockerCompose |-> dockerCompose.val,
                            internetConnection |-> net.val]))))

DockerMissing ==
    <<"Docker is not installed or not running. Please install Docker Desktop and ensure it is started before deploying.">>
ComposeMissing ==
    <<"Docker Compose is not available. Please ensure Docker Desktop includes Docker Compose or install it separately.">>

\* errorMessage.includes(s): an error text is the sequence of the fragments it is made of
Includes(text, s) == s \in Range(text)

\* the message deployProject raises for the error text of a failed compose command
composeErrorMessage(text) ==
    IF Includes(text, "maxBuffer length exceeded")
    THEN <<"Docker deployment generated too much output.">>
    ELSE IF Includes(text, "no such host") \/ Includes(text, "dial tcp")
    THEN <<"Network connectivity issue: Unable to reach Docker registry.">>
    ELSE IF Includes(text, "permission denied")
    THEN <<"Docker permission denied.">>
    ELSE IF Includes(text, "not found")
    THEN <<"Docker or Docker Compose not found.">>
    ELSE IF Includes(text, "image") /\ Includes(text, "not found")
    THEN <<"Required Docker images not found.">>
    ELSE <<"Docker deployment failed: ">> \o text

\* whether `docker compose` finds a compose file in the project's docker directory
HasCompose(w, id) == w.projDir[id].dir /\ w.projDir[id].compose

\* faulty variant: a failing pull ends the deployment
composeUp_pullFatal(w, id, checks, text, f) ==
    Then(IF checks.internetConnection
         THEN Step(w, "docker compose pull", <<id>>, f, HasCompose(w, id),
                   composeErrorMessage(text), Same)
         ELSE Ok(w, FALSE),
    LAMBDA pull :
         Step(pull.w, "docker compose up", <<id>>, f, HasCompose(w, id),
              composeErrorMessage(text),
              LAMBDA u : [u EXCEPT !.containers[id] = "running"]))

\* pull (only with connectivity, failure ignored), then up; text is the error text
\* of a failing up
composeUp(w, id, checks, text, f) ==
    Then(IF checks.internetConnection
         THEN Attempt(w, "docker compose pull", <<id>>, f, HasCompose(w, id), Same)
         ELSE Ok(w, FALSE),
    LAMBDA pull :
         Step(pull.w, "docker compose up", <<id>>, f, HasCompose(w, id),
              composeErrorMessage(text),
              LAMBDA u : [u EXCEPT !.containers[id] = "running"]))

\* varMap['KONG_HTTP_PORT'] || varMap['STUDIO_PORT'] || varMap['POSTGRES_PORT']
portStrOf(rows) ==
    IF Lookup(rows, "KONG_HTTP_PORT") # <<>> THEN Lookup(rows, "KONG_HTTP_PORT")
    ELSE IF Lookup(rows, "STUDIO_PORT") # <<>> THEN Lookup(rows, "STUDIO_PORT")
    ELSE Lookup(rows, "POSTGRES_PORT")

\* portStr ? parseInt(portStr, 10) : undefined
portOf(rows) == IF portStrOf(rows) # <<>> THEN ParseInt(portStrOf(rows)) ELSE Undefined

\* the configured reverse proxy when it is not blank, else undefined
internalProxy == IF NonBlank(env.INTERNAL_REVERSE_PROXY_URL)
                 THEN env.INTERNAL_REVERSE_PROXY_URL ELSE <<>>

\* the steps of deployProject after compose up succeeded
exposeAndActivate(w, id, project, f) ==
    Then(Attempt(w, "docker compose ps", <<id>>, f, HasCompose(w, id), Same),
    LAMBDA ps :
    Then(Step(ps.w, "projectEnvVar.findMany", <<id>>, f, TRUE,
              Fault("projectEnvVar.findMany"), Same),
    LAMBDA rows :
    Then(ensureProjectPublicExposure(
             Call(rows.w, "ensureProjectPublicExposure", project.slug, {}),
             ExposureArg(project.name, project.slug, portOf(w.envRows[id]), internalProxy),
             f),
    LAMBDA exposure :
    Then(upsertEnvVar(exposure.w, id, "PUBLIC_HOSTNAME", exposure.val.hostname, f),
    LAMBDA host :
    Then(upsertEnvVar(host.w, id, "PUBLIC_URL", exposure.val.publicUrl, f),
    LAMBDA url :
    Then(updateStatus(url.w, id, "active", f),
    LAMBDA status : Ok(status.w, exposure.val.publicUrl)))))))

deployProjectBody(w, id, text, f) ==
    Then(findProject(w, id, f),
    LAMBDA project :
    Then(Swallow(patchComposePorts(project.w, id, f)),
    LAMBDA patch :
    Then(checkDockerPrerequisites(patch.w, f),
    LAMBDA checks :
        IF ~checks.val.docker THEN Throw(checks.w, DockerMissing)
        ELSE IF ~checks.val.dockerCompose THEN Throw(checks.w, ComposeMissing)
        ELSE Then(composeUp(checks.w, id, checks.val, text, f),
             LAMBDA up : exposeAndActivate(up.w, id, project.val, f)))))

deployProject(w, id, text, f) ==
    LET c == deployProjectBody(w, id, text, f)
    IN  Caught(c, [success |-> TRUE, publicUrl |-> c.val])

-----------------------------------------------------------------------------
(* pauseProject, deleteProject *)

\* faulty variant: the status is written before the containers are stopped
pauseProjectBody_statusFirst(w, id, f) ==
    Then(findProject(w, id, f),
    LAMBDA project :
    Then(updateStatus(project.w, id, "paused", f),
    LAMBDA status :
         Step(status.w, "docker compose stop", <<id>>, f, HasCompose(w, id),
              Fault("docker compose stop"),
              LAMBDA u : [u EXCEPT !.containers[id] =
                             IF @ = "running" THEN "stopped" ELSE @])))

pauseProjectBody(w, id, f) ==
    Then(findProject(w, id, f),
    LAMBDA project :
    Then(Step(project.w, "docker compose stop", <<id>>, f, HasCompose(w, id),
              Fault("docker compose stop"),
              LAMBDA u : [u EXCEPT !.containers[id] =
                             IF @ = "running" THEN "stopped" ELSE @]),
    LAMBDA stopped : updateStatus(stopped.w, id, "paused", f)))

pauseProject(w, id, f) == Caught(pauseProjectBody(w, id, f), [success |-> TRUE])

\* faulty variant: the store's own error is raised
removeRecords_storeError(w, id, f) ==
    Then(Step(w, "projectEnvVar.deleteMany", <<id>>, f, TRUE,
              Fault("projectEnvVar.deleteMany"),
              LAMBDA u : [u EXCEPT !.envRows[id] = {}]),
    LAMBDA rows :
         Step(rows.w, "project.delete", <<id>>, f, w.projects[id].exists,
              Fault("project.delete"),
              LAMBDA u : [u EXCEPT !.projects[id] = Removed]))

\* Step 4: deleteMany, then delete; any failure is raised under one message
removeRecords(w, id, f) ==
    Then(Step(w, "projectEnvVar.deleteMany", <<id>>, f, TRUE,
              <<"Failed to remove project from database">>,
              LAMBDA u : [u EXCEPT !.envRows[id] = {}]),
    LAMBDA rows :
         Step(rows.w, "project.delete", <<id>>, f, w.projects[id].exists,
              <<"Failed to remove project from database">>,
              LAMBDA u : [u EXCEPT !.projects[id] = Removed]))

deleteProjectBody(w, id, f) ==
    Then(findProject(w, id, f),
    LAMBDA project :
    Then(Attempt(project.w, "docker compose down", <<id>>, f, HasCompose(w, id),
                 LAMBDA u : [u EXCEPT !.containers[id] = "none"]),
    LAMBDA down :
    Then(Swallow(cleanupProjectExposure(
             Call(down.w, "cleanupProjectExposure", project.val.slug, {}),
             [projectSlug |-> project.val.slug, projectName |-> project.val.name],
             f)),
    LAMBDA cleanup :
    Then(Attempt(cleanup.w, "rm -rf projectDir", <<id>>, f, TRUE,
                 LAMBDA u : [u EXCEPT !.projDir[id] = NoDir]),
    LAMBDA removed : removeRecords(removed.w, id, f)))))

deleteProject(w, id, f) == Caught(deleteProjectBody(w, id, f), [success |-> TRUE])

-----------------------------------------------------------------------------
(* Observations: the operation that ran last, what it returned, what it called *)

NoOp == [op |-> "none", args |-> <<>>, faults |-> {}, calls |-> 0]
Op(name, args, f, n) == [op |-> name, args |-> args, faults |-> f, calls |-> n]

\* what a function that may throw handed to its caller
Outcome(c) == [ok |-> c.ok, val |-> c.val, err |-> c.err]
NoResult == Outcome(Ok(<<>>, <<>>))

Idle == lastOp = NoOp

\* the caller has taken the result; the next operation may start
Return ==
    /\ ~Idle
    /\ lastOp' = NoOp
    /\ result' = NoResult
    /\ log' = <<>>
    /\ UNCHANGED <<storeVars, hostVars, netVars, env, raceVars>>

-----------------------------------------------------------------------------
(* The project lifecycle: the public operations of project.ts, one at a time *)

\* the names and creation times (Date.now()) projects are created with
CreateInputs == { << <<"D","_">>, 41003 >> }

\* the variable sets updateProjectEnvVars is called with
UpdateInputs == { << KV("KONG_HTTP_PORT", <<"7","0">>), KV("JWT_SECRET", <<"s">>) >> }

\* the error texts a failing `docker compose up` ends with
UpErrorTexts == { <<"exit status 1">>, <<"permission denied">>,
                  <<"image", "not found">> }

\* the ingress documents the lifecycle starts from
LifecycleDocs ==
    { NoFile,
      File(Doc(TunnelUuid, TRUE,
               <<Rule(Hostname(<<"o">>, BaseDomain), KongUrl), CatchAll404>>)) }

Init ==
    /\ projects = [id \in ProjectIds |-> NoRow]
    /\ envRows = [id \in ProjectIds |-> {}]
    /\ projDir = [id \in ProjectIds |-> NoDir]
    /\ containers = [id \in ProjectIds |-> "none"]
    /\ zone = {}
    /\ cfgFile \in LifecycleDocs
    /\ env \in EnvConfigs
    /\ lastOp = NoOp
    /\ result = NoResult
    /\ log = <<>>
    /\ pc = <<>>
    /\ snap = <<>>

\* every run of an operation: no call failing, or any calls failing
RECURSIVE CreateRuns(_, _, _, _, _)
CreateRuns(w, id, name, timestamp, f) ==
    LET c == createProject(w, id, name, timestamp, f)
    IN  {[c |-> c, f |-> f]}
        \cup UNION { CreateRuns(w, id, name, timestamp, f \cup {x}) :
                        x \in NextFaults(c.w.log, f) }

RECURSIVE UpdateRuns(_, _, _, _)
UpdateRuns(w, id, envVars, f) ==
    LET c == updateProjectEnvVars(w, id, envVars, f)
    IN  {[c |-> c, f |-> f]}
        \cup UNION { UpdateRuns(w, id, envVars, f \cup {x}) :
                        x \in NextFaults(c.w.log, f) }

RECURSIVE DeployRuns(_, _, _, _)
DeployRuns(w, id, text, f) ==
    LET c == deployProject(w, id, text, f)
    IN  {[c |-> c, f |-> f]}
        \cup UNION { DeployRuns(w, id, text, f \cup {x}) :
                        x \in NextFaults(c.w.log, f) }

RECURSIVE PauseRuns(_, _, _)
PauseRuns(w, id, f) ==
    LET c == pauseProject(w, id, f)
    IN  {[c |-> c, f |-> f]}
        \cup UNION { PauseRuns(w, id, f \cup {x}) : x \in NextFaults(c.w.log, f) }

RECURSIVE DeleteRuns(_, _, _)
DeleteRuns(w, id, f) ==
    LET c == deleteProject(w, id, f)
    IN  {[c |-> c, f |-> f]}
        \cup UNION { DeleteRuns(w, id, f \cup {x}) : x \in NextFaults(c.w.log, f) }

\* a lifecycle operation ran as r
LifecycleDone(name, args, r) ==
    /\ projects' = r.c.w.projects
    /\ envRows' = r.c.w.envRows
    /\ projDir' = r.c.w.projDir
    /\ containers' = r.c.w.containers
    /\ zone' = r.c.w.zone
    /\ cfgFile' = r.c.w.cfgFile
    /\ log' = r.c.w.log
    /\ result' = Outcome(r.c)
    /\ lastOp' = Op(name, args, r.f, 1)
    /\ UNCHANGED <<env, raceVars>>

\* the store gives the new row an id that was never used
CreateProject(id) ==
    /\ Idle
    /\ projects[id] = NoRow
    /\ \E in \in CreateInputs :
         \E r \in CreateRuns(World, id, in[1], in[2], {}) :
            LifecycleDone("createProject", <<id, in[1], in[2]>>, r)

UpdateProjectEnvVars(id) ==
    /\ Idle
    /\ \E envVars \in UpdateInputs :
         \E r \in UpdateRuns(World, id, envVars, {}) :
            LifecycleDone("updateProjectEnvVars", <<id, envVars>>, r)

\* whether compose up was run and failed
UpFailed(l) == \E i \in DOMAIN l : l[i].call = "docker compose up" /\ ~l[i].ok

\* a failing compose up ends with any of the error texts
DeployProject(id) ==
    /\ Idle
    /\ \E r \in DeployRuns(World, id, <<"exit status 1">>, {}) :
         \E c \in (IF UpFailed(r.c.w.log)
                   THEN {deployProject(World, id, text, r.f) : text \in UpErrorTexts}
                   ELSE {r.c}) :
            LifecycleDone("deployProject", <<id>>, [c |-> c, f |-> r.f])

PauseProject(id) ==
    /\ Idle
    /\ \E r \in PauseRuns(World, id, {}) : LifecycleDone("pauseProject", <<id>>, r)

DeleteProject(id) ==
    /\ Idle
    /\ \E r \in DeleteRuns(World, id, {}) : LifecycleDone("deleteProject", <<id>>, r)

\* The lifecycle is followed up to its first operation that met a failing call:
\* the next operation starts from a world no failure has touched.
Proceed ==
    /\ lastOp.faults = {}
    /\ Return

Next ==
    \/ \E id \in ProjectIds : CreateProject(id)
    \/ \E id \in ProjectIds : UpdateProjectEnvVars(id)
    \/ \E id \in ProjectIds : DeployProject(id)
    \/ \E id \in ProjectIds : PauseProject(id)
    \/ \E id \in ProjectIds : DeleteProject(id)
    \/ Proceed

Spec == Init /\ [][Next]_vars

-----------------------------------------------------------------------------
(* The exposure operations on their own, from any zone and any document *)

\* the hostnames the initial zone and document speak of
HostA  == <<"a","-">> \o <<".">> \o BaseDomain
HostAU == <<"A","-">> \o <<".">> \o BaseDomain
HostO  == <<"o">> \o <<".">> \o BaseDomain

TunnelTarget == TunnelUuid \o TunnelSuffix

\* zones holding at most one CNAME per hostname
InitZones ==
    { {},
      {CnameRecord(1, HostA, TunnelTarget)},
      {[CnameRecord(1, HostA, TunnelTarget) EXCEPT !.proxied = FALSE],
       CnameRecord(2, HostO, <<"other">>)},
      {CnameRecord(2, HostA, <<"old">>), CnameRecord(1, HostO, <<"other">>)} }

\* the rules an initial document may hold
InitRules ==
    { Rule(HostAU, ProxyUrl),
      Rule(HostO, KongUrl),
      Rule(HostO, Http404),
      CatchAll404,
      Rule(<<>>, KongUrl) }

SeqsUpTo(S, n) == UNION { [1..k -> S] : k \in 0..n }

InitDocs ==
    {NoFile, File(EmptyDoc), File(Doc(<<"u","0">>, FALSE, <<>>))}
    \cup { File(Doc(TunnelUuid, TRUE, rules)) : rules \in SeqsUpTo(InitRules, MaxRules) }

\* the arguments the exposure operations are called with
ExposureArgs ==
    { ExposureArg(<<"P">>, <<"A","_">>, pu[1], pu[2]) :
        pu \in { <<Num(8007), <<>>>>, <<Undefined, <<>>>>, <<Undefined, KongUrl>>,
                 <<Num(8007), <<" ">>>> } }

\* the arguments CleanupExposure is called with
CleanupArgs == { [projectSlug |-> <<"A","_">>, projectName |-> <<"P">>] }

IdleHost ==
    /\ projects = <<>>
    /\ envRows = <<>>
    /\ projDir = <<>>
    /\ containers = <<>>

InitExposure ==
    /\ IdleHost
    /\ zone \in InitZones
    /\ cfgFile \in InitDocs
    /\ env \in EnvConfigs
    /\ lastOp = NoOp
    /\ result = NoResult
    /\ log = <<>>
    /\ pc = <<>>
    /\ snap = <<>>

\* every run of ensureProjectPublicExposure: no call failing, or any calls failing
RECURSIVE EnsureRuns(_, _, _)
EnsureRuns(w, args, f) ==
    LET c == ensureProjectPublicExposure(w, args, f)
    IN  {[c |-> c, f |-> f]}
        \cup UNION { EnsureRuns(w, args, f \cup {x}) : x \in NextFaults(c.w.log, f) }

RECURSIVE CleanupRuns(_, _, _)
CleanupRuns(w, args, f) ==
    LET c == cleanupProjectExposure(w, args, f)
    IN  {[c |-> c, f |-> f]}
        \cup UNION { CleanupRuns(w, args, f \cup {x}) : x \in NextFaults(c.w.log, f) }

\* an exposure operation ran as r
ExposureDone(name, args, r, n) ==
    /\ zone' = r.c.w.zone
    /\ cfgFile' = r.c.w.cfgFile
    /\ log' = r.c.w.log
    /\ result' = Outcome(r.c)
    /\ lastOp' = Op(name, args, r.f, n)
    /\ UNCHANGED <<storeVars, hostVars, env, raceVars>>

EnsureExposure ==
    /\ Idle
    /\ \E args \in ExposureArgs :
         \E r \in EnsureRuns(World, args, {}) :
            ExposureDone("EnsureExposure", args, r, 1)

\* the caller calls EnsureExposure again, with identical arguments
EnsureExposureAgain ==
    /\ lastOp.op = "EnsureExposure"
    /\ lastOp.calls = 1
    /\ \E r \in EnsureRuns(World, lastOp.args, {}) :
          ExposureDone("EnsureExposure", lastOp.args, r, 2)

CleanupExposure ==
    /\ Idle
    /\ \E args \in CleanupArgs :
         \E r \in CleanupRuns(World, args, {}) :
            ExposureDone("CleanupExposure", args, r, 1)

NextExposure ==
    \/ EnsureExposure
    \/ EnsureExposureAgain
    \/ CleanupExposure
    \/ Return

SpecExposure == InitExposure /\ [][NextExposure]_vars

-----------------------------------------------------------------------------
(* Two callers run ensureProjectPublicExposure at once, for different hostnames. *)
(* A step is what a caller does between two awaits: one request, one file      *)
(* access or one command.                                                       *)

Callers == {1, 2}

RaceArgs ==
    [c \in Callers |->
        IF c = 1 THEN ExposureArg(<<"P">>, <<"A","_">>, Num(8007), <<>>)
                 ELSE ExposureArg(<<"Q">>, <<"o">>, Num(8008), <<>>)]

RaceHost(c) == Hostname(sanitizeSlug(SlugOrName(RaceArgs[c])), env.BASE_DOMAIN)

\* a caller's locals: the list response, the document it read (and whether the file
\* could be read when it was there), what it returned
NoLocals == [existing |-> {}, config |-> EmptyDoc, readFault |-> FALSE, ret |-> NoResult]

RaceDocs ==
    { NoFile,
      File(Doc(TunnelUuid, TRUE, <<CatchAll404>>)),
      File(Doc(TunnelUuid, TRUE, <<Rule(HostAU, ProxyUrl), CatchAll404>>)) }

InitRace ==
    /\ IdleHost
    /\ zone \in { {}, {CnameRecord(1, HostA, <<"old">>)} }
    /\ cfgFile \in RaceDocs
    /\ env \in { FullEnv, [FullEnv EXCEPT !.INTERNAL_REVERSE_PROXY_URL = ProxyUrl] }
    /\ lastOp = NoOp
    /\ result = NoResult
    /\ log = <<>>
    /\ pc = [c \in Callers |-> "list"]
    /\ snap = [c \in Callers |-> NoLocals]

Goto(c, label) == pc' = [pc EXCEPT ![c] = label]

\* the caller's promise rejects
RaceThrow(c, e) ==
    /\ Goto(c, "failed")
    /\ snap' = [snap EXCEPT ![c].ret = Outcome(Throw(<<>>, e))]

\* ensureCloudflareCname: the list request and its response
RaceList(c) ==
    /\ pc[c] = "list"
    /\ UNCHANGED <<storeVars, hostVars, netVars, env, obsVars>>
    /\ \/ /\ Goto(c, "dns")
          /\ snap' = [snap EXCEPT ![c].existing = DnsByName(zone, RaceHost(c))]
       \/ RaceThrow(c, ApiError("list"))

\* ensureCloudflareCname: the update or create request, when one is needed
RaceDnsWrite(c) ==
    /\ pc[c] = "dns"
    /\ UNCHANGED <<storeVars, hostVars, cfgFile, env, obsVars>>
    /\ LET existing == DnsFirst(snap[c].existing, RaceHost(c))
       IN  IF snap[c].existing # {}
           THEN IF existing.content # TunnelTarget \/ existing.proxied # TRUE
                THEN \/ /\ zone' = {r \in zone : r.id # existing.id}
                                      \cup {CnameRecord(existing.id, RaceHost(c), TunnelTarget)}
                        /\ Goto(c, "read") /\ UNCHANGED snap
                     \/ RaceThrow(c, ApiError("update")) /\ UNCHANGED zone
                ELSE Goto(c, "read") /\ UNCHANGED <<zone, snap>>
           ELSE \/ /\ zone' = zone \cup
                              {CnameRecord(DnsFreshId(zone), RaceHost(c), TunnelTarget)}
                   /\ Goto(c, "read") /\ UNCHANGED snap
                \/ RaceThrow(c, ApiError("create")) /\ UNCHANGED zone

\* ensureTunnelIngress: readYamlFile
RaceRead(c) ==
    /\ pc[c] = "read"
    /\ UNCHANGED <<storeVars, hostVars, netVars, env, obsVars>>
    /\ \E f \in {{}, {1}} :
          snap' = [snap EXCEPT ![c].config = readYamlFile(World, f).val,
                               ![c].readFault = (f # {})]
    /\ Goto(c, "write")

\* ensureTunnelIngress: writeYamlFile of the document computed from the one it read
RaceWrite(c) ==
    /\ pc[c] = "write"
    /\ UNCHANGED <<storeVars, hostVars, zone, env, obsVars>>
    /\ \E f \in {{}, {1}} :
          LET data == ensuredDoc(snap[c].config, RaceHost(c),
                                 serviceUrlOf(RaceArgs[c]), env.CF_TUNNEL_UUID)
              wr   == writeYamlFile(World, data, f)
          IN  /\ cfgFile' = wr.w.cfgFile
              /\ IF wr.ok THEN Goto(c, "validate") /\ UNCHANGED snap
                          ELSE RaceThrow(c, wr.err)

\* ensureTunnelIngress: cloudflared tunnel ingress validate
RaceValidate(c) ==
    /\ pc[c] = "validate"
    /\ UNCHANGED <<storeVars, hostVars, netVars, env, obsVars>>
    /\ \E f \in {{}, {1}, {1, 2}} :
          LET va == validateIngress(World, f)
          IN  IF va.ok THEN Goto(c, "reload") /\ UNCHANGED snap
                       ELSE RaceThrow(c, va.err)

\* ensureTunnelIngress: reloadCloudflared; ensureProjectPublicExposure returns
RaceReload(c) ==
    /\ pc[c] = "reload"
    /\ UNCHANGED <<storeVars, hostVars, netVars, env, obsVars>>
    /\ Goto(c, "done")
    /\ snap' = [snap EXCEPT ![c].ret =
                   Outcome(Ok(<<>>, [hostname |-> RaceHost(c),
                                     publicUrl |-> <<"https://">> \o RaceHost(c)]))]

NextRace ==
    \E c \in Callers :
        \/ RaceList(c)
        \/ RaceDnsWrite(c)
        \/ RaceRead(c)
        \/ RaceWrite(c)
        \/ RaceValidate(c)
        \/ RaceReload(c)

SpecRace == InitRace /\ [][NextRace]_vars

-----------------------------------------------------------------------------
(* Two projects are created, one after the other, no call failing: what           *)
(* createProject derives for each from its name and from Date.now()               *)

PairIds == {"p1", "p2"}

\* the names the two projects are created with
PairNames == { <<"D","_">>, <<"d","-">>, <<"A","b">> }

\* the values of Date.now() (milliseconds) the two calls may see
PairTimes == {41003, 41004, 41103, 40003, 51003}

InitPair ==
    /\ projects = [id \in PairIds |-> NoRow]
    /\ envRows = [id \in PairIds |-> {}]
    /\ projDir = [id \in PairIds |-> NoDir]
    /\ containers = [id \in PairIds |-> "none"]
    /\ zone = {}
    /\ cfgFile = NoFile
    /\ env = FullEnv
    /\ lastOp = NoOp
    /\ result = NoResult
    /\ log = <<>>
    /\ pc = [id \in PairIds |-> "new"]
    /\ snap = [id \in PairIds |-> [name |-> <<>>, timestamp |-> 0]]

\* createProject(name) runs at time timestamp and the store gives the row the id
CreateOfPair(id) ==
    /\ pc[id] = "new"
    /\ \E name \in PairNames, timestamp \in PairTimes :
          LET c == createProject(World, id, name, timestamp, {})
          IN  /\ projects' = c.w.projects
              /\ envRows' = c.w.envRows
              /\ projDir' = c.w.projDir
              /\ containers' = c.w.containers
              /\ log' = c.w.log
              /\ result' = Outcome(c)
              /\ lastOp' = Op("createProject", <<id, name, timestamp>>, {}, 1)
              /\ snap' = [snap EXCEPT ![id] = [name |-> name, timestamp |-> timestamp]]
    /\ pc' = [pc EXCEPT ![id] = "created"]
    /\ UNCHANGED <<netVars, env>>

NextPair == \E id \in PairIds : CreateOfPair(id)

SpecPair == InitPair /\ [][NextPair]_vars

-----------------------------------------------------------------------------
(* Compose Template Patcher: the text of a project's docker-compose.yml.  The   *)
(* text is a sequence of characters; the keys "container_name: " and "name: "   *)
(* and a port variable's name, which are only copied and compared as wholes,    *)
(* are one element each.                                                         *)

Newline == "\n"

\* a regular expression made of literal characters and of ".", at the start of t
MatchesAt(t, p) ==
    /\ Len(t) >= Len(p)
    /\ \A i \in DOMAIN p : \/ p[i] = t[i]
                           \/ p[i] = "." /\ t[i] # Newline

\* the places of t where p matches
MatchesOf(t, p) == {i \in DOMAIN t : MatchesAt(SubSeq(t, i, Len(t)), p)}

\* content.replace(new RegExp(p, 'g'), r), for p as above: the leftmost match is
\* replaced, then the search goes on after it
RECURSIVE ReplaceAll(_, _, _)
ReplaceAll(t, p, r) ==
    IF MatchesOf(t, p) = {} THEN t
    ELSE LET i == CHOOSE k \in MatchesOf(t, p) : \A j \in MatchesOf(t, p) : k <= j
         IN  SubSeq(t, 1, i - 1) \o r
                 \o ReplaceAll(SubSeq(t, i + Len(p), Len(t)), p, r)

\* the places where /^p$/m matches: p is a whole line of t
WholeLineAt(t, p) ==
    {i \in DOMAIN t :
        /\ i = 1 \/ t[i - 1] = Newline
        /\ i + Len(p) - 1 <= Len(t)
        /\ SubSeq(t, i, i + Len(p) - 1) = p
        /\ i + Len(p) - 1 = Len(t) \/ t[i + Len(p)] = Newline}

\* content.replace(/^p$/m, r): the first such line only
ReplaceFirstLine(t, p, r) ==
    IF WholeLineAt(t, p) = {} THEN t
    ELSE LET i == CHOOSE k \in WholeLineAt(t, p) : \A j \in WholeLineAt(t, p) : k <= j
         IN  SubSeq(t, 1, i - 1) \o r \o SubSeq(t, i + Len(p), Len(t))

Supabase == <<"s","u","p","a","b","a","s","e">>
ContainerNameKey == <<"container_name: ">>
NameKey == <<"name: ">>

Mapping(original, replacement) == [original |-> original, replacement |-> replacement]

containerMappings(slug) ==
    <<
       Mapping(Supabase \o <<"-","s","t","u","d","i","o">>, slug \o <<"-","s","t","u","d","i","o">>),
       Mapping(Supabase \o <<"-","k","o","n","g">>, slug \o <<"-","k","o","n","g">>),
       Mapping(Supabase \o <<"-","a","u","t","h">>, slug \o <<"-","a","u","t","h">>),
       Mapping(Supabase \o <<"-","r","e","s","t">>, slug \o <<"-","r","e","s","t">>),
       Mapping(<<"r","e","a","l","t","i","m","e","-","d","e","v",".">> \o Supabase \o <<"-","r","e","a","l","t","i","m","e">>,
               <<"r","e","a","l","t","i","m","e","-","d","e","v",".">> \o slug \o <<"-","r","e","a","l","t","i","m","e">>),
       Mapping(Supabase \o <<"-","s","t","o","r","a","g","e">>, slug \o <<"-","s","t","o","r","a","g","e">>),
       Mapping(Supabase \o <<"-","i","m","g","p","r","o","x","y">>, slug \o <<"-","i","m","g","p","r","o","x","y">>),
       Mapping(Supabase \o <<"-","m","e","t","a">>, slug \o <<"-","m","e","t","a">>),
       Mapping(Supabase \o <<"-","e","d","g","e","-","f","u","n","c","t","i","o","n","s">>, slug \o <<"-","e","d","g","e","-","f","u","n","c","t","i","o","n","s">>),
       Mapping(Supabase \o <<"-","a","n","a","l","y","t","i","c","s">>, slug \o <<"-","a","n","a","l","y","t","i","c","s">>),
       Mapping(Supabase \o <<"-","d","b">>, slug \o <<"-","d","b">>),
       Mapping(Supabase \o <<"-","v","e","c","t","o","r">>, slug \o <<"-","v","e","c","t","o","r">>),
       Mapping(Supabase \o <<"-","p","o","o","l","e","r">>, slug \o <<"-","p","o","o","l","e","r">>) >>

\* for (const mapping of containerMappings) content = content.replace(/container_name: original/g, ...)
RECURSIVE renameContainers(_, _)
renameContainers(content, mappings) ==
    IF mappings = <<>> THEN content
    ELSE renameContainers(
             ReplaceAll(content, ContainerNameKey \o Head(mappings).original,
                                 ContainerNameKey \o Head(mappings).replacement),
             Tail(mappings))

\* createProject's rewrite of the container names and of the compose project name
identityRewrite(content, slug) ==
    ReplaceFirstLine(renameContainers(content, containerMappings(slug)),
                     NameKey \o Supabase, NameKey \o slug)

Whitespace == {" ", "\t", Newline}
Quotes == {"\"", "'"}

RECURSIVE LeadingWhitespace(_)
LeadingWhitespace(t) ==
    IF t # <<>> /\ Head(t) \in Whitespace THEN 1 + LeadingWhitespace(Tail(t)) ELSE 0

\* how many elements `-\s*["']?host:container["']?` matches at the start of t, 0 if none
PortMatchLen(t, hostPort, containerPort) ==
    LET pair   == ToDigits(hostPort) \o <<":">> \o ToDigits(containerPort)
        spaces == IF t = <<>> THEN 0 ELSE LeadingWhitespace(Tail(t))
        q1     == IF Len(t) > 1 + spaces /\ t[2 + spaces] \in Quotes THEN 1 ELSE 0
        start  == 1 + spaces + q1
        end    == start + Len(pair)
        q2     == IF Len(t) > end /\ t[end + 1] \in Quotes THEN 1 ELSE 0
    IN  IF /\ t # <<>> /\ Head(t) = "-"
           /\ Len(t) >= end
           /\ SubSeq(t, start + 1, end) = pair
        THEN end + q2
        ELSE 0

\* the places of content where the pattern matches
PortMatchesOf(content, hostPort, containerPort) ==
    {i \in DOMAIN content :
        PortMatchLen(SubSeq(content, i, Len(content)), hostPort, containerPort) > 0}

\* content.replace(pattern, '- ${' + varName + ':-' + hostPort + '}:' + containerPort)
RECURSIVE injectPortVar(_, _, _, _)
injectPortVar(content, hostPort, containerPort, varName) ==
    LET at == PortMatchesOf(content, hostPort, containerPort)
        i  == CHOOSE k \in at : \A j \in at : k <= j
        n  == PortMatchLen(SubSeq(content, i, Len(content)), hostPort, containerPort)
    IN  IF at = {} THEN content
        ELSE SubSeq(content, 1, i - 1)
                 \o <<"-", " ", "$", "{", varName, ":", "-">> \o ToDigits(hostPort)
                 \o <<"}", ":">> \o ToDigits(containerPort)
                 \o injectPortVar(SubSeq(content, i + n, Len(content)),
                                  hostPort, containerPort, varName)

\* the host ports of the stack and the variables that replace them
PortTable == << <<8000, 8000, "KONG_HTTP_PORT">>,
                <<8443, 8443, "KONG_HTTPS_PORT">>,
                <<3000, 3000, "STUDIO_PORT">>,
                <<4000, 4000, "ANALYTICS_PORT">>,
                <<5432, 5432, "POSTGRES_PORT">>,
                <<6543, 6543, "POOLER_PROXY_PORT_TRANSACTION">> >>

\* the content patchComposePorts computes from the content it read
RECURSIVE injectPortVars(_, _)
injectPortVars(content, table) ==
    IF table = <<>> THEN content
    ELSE injectPortVars(
             injectPortVar(content, Head(table)[1], Head(table)[2], Head(table)[3]),
             Tail(table))

-----------------------------------------------------------------------------
(* The patcher's two operations applied, and applied again, to the compose file *)
(* of one project                                                                *)

\* how many lines, besides the project-name line, a template holds at most
MaxLines == 2

\* how many times the operations are applied to one file at most
MaxApplications == 3

\* the names of the projects whose file is patched; their creation time
PatcherNames == { <<"D","_">>, <<"s","u","p","a","b","a","s","e","-","d","b">> }
PatcherTime == 41003

\* lines a template may hold: container names the rewrite knows, port mappings of
\* the table (bare and quoted), and port mappings that are not in the table
TemplateLines ==
    { ContainerNameKey \o Supabase \o <<"-","s","t","u","d","i","o">>,
      ContainerNameKey \o Supabase \o <<"-","d","b">>,
      ContainerNameKey \o <<"r","e","a","l","t","i","m","e","-","d","e","v",".">> \o Supabase \o <<"-","r","e","a","l","t","i","m","e">>,
      <<"-", " ">> \o ToDigits(8000) \o <<":">> \o ToDigits(8000),
      <<"-", " ", "\"">> \o ToDigits(3000) \o <<":">> \o ToDigits(3000) \o <<"\"">>,
      <<"-", " ">> \o ToDigits(5432) \o <<":">> \o ToDigits(54320),
      <<"-", " ">> \o ToDigits(9999) \o <<":">> \o ToDigits(3000) }

\* lines.join('\n')
RECURSIVE JoinLines(_)
JoinLines(lines) ==
    IF lines = <<>> THEN <<>>
    ELSE IF Len(lines) = 1 THEN Head(lines)
    ELSE Head(lines) \o <<Newline>> \o JoinLines(Tail(lines))

\* the template texts: with or without the compose project name as first line
Templates ==
    { JoinLines(head \o lines) :
        head \in { <<>>, << NameKey \o Supabase >> },
        lines \in UNION { [1..k -> TemplateLines] : k \in 0..MaxLines } }

\* a caller's locals when nothing was applied yet
NoPatch == [template |-> <<>>, before |-> <<>>, wrote |-> FALSE, applied |-> <<>>]

InitPatcher ==
    /\ \E name \in PatcherNames :
          projects = [id \in ProjectIds |-> Row(name, slugOf(name, PatcherTime))]
    /\ \E template \in Templates :
          /\ projDir = [id \in ProjectIds |-> [content |-> template]]
          /\ snap = [id \in ProjectIds |-> [NoPatch EXCEPT !.template = template]]
    /\ envRows = [id \in ProjectIds |-> {}]
    /\ containers = [id \in ProjectIds |-> "none"]
    /\ zone = {}
    /\ cfgFile = NoFile
    /\ env = FullEnv
    /\ lastOp = NoOp
    /\ result = NoResult
    /\ log = <<>>
    /\ pc = <<>>

\* the file was read and content computed; the file is written if write
Patched(id, op, content, write) ==
    /\ projDir' = [projDir EXCEPT ![id].content = IF write THEN content ELSE @]
    /\ snap' = [snap EXCEPT ![id].before = projDir[id].content,
                            ![id].wrote = write,
                            ![id].applied = Append(@, op)]
    /\ UNCHANGED <<storeVars, containers, netVars, env, obsVars, pc>>

\* createProject, from reading docker-compose.yml to writing it back
IdentityRewrite(id) ==
    /\ Len(snap[id].applied) < MaxApplications
    /\ Patched(id, "identityRewrite",
               identityRewrite(projDir[id].content, projects[id].slug), TRUE)

\* patchComposePorts: the file is written only when the content changed
PatchComposePorts(id) ==
    /\ Len(snap[id].applied) < MaxApplications
    /\ LET content == injectPortVars(projDir[id].content, PortTable)
       IN  Patched(id, "patchComposePorts", content, content # projDir[id].content)

NextPatcher ==
    \/ \E id \in ProjectIds : IdentityRewrite(id)
    \/ \E id \in ProjectIds : PatchComposePorts(id)

SpecPatcher == InitPatcher /\ [][NextPatcher]_vars

-----------------------------------------------------------------------------
(* Hostname sanitization: sanitizeSlug applied to a slug, and the exposure   *)
(* operations called with that slug                                          *)

\* how long a slug handed to the exposure operations is at most
MaxSlugLen == 3

\* the characters slugs are made of: those of "My Proj_2!", a hyphen, and a
\* letter whose lower-case form is two code units long
SlugAlphabet == {"M", "y", " ", "_", "2", "!", "-", "U+0130"}

SlugInputs == SeqsUpTo(SlugAlphabet, MaxSlugLen)

InitSanitize ==
    /\ IdleHost
    /\ zone = {}
    /\ cfgFile = NoFile
    /\ env = FullEnv
    /\ lastOp = NoOp
    /\ result = NoResult
    /\ log = <<>>
    /\ pc = "input"
    /\ snap \in { [input |-> s, out |-> <<>>, again |-> <<>>] : s \in SlugInputs }

\* sanitizeSlug(input), and sanitizeSlug of what it returned
SanitizeSlug ==
    /\ pc = "input"
    /\ pc' = "sanitized"
    /\ snap' = [snap EXCEPT !.out = sanitizeSlug(snap.input),
                            !.again = sanitizeSlug(sanitizeSlug(snap.input))]
    /\ UNCHANGED <<storeVars, hostVars, netVars, env, obsVars>>

\* ensureProjectPublicExposure({projectSlug: input, port}), no call failing
EnsureForSlug ==
    /\ pc = "sanitized"
    /\ Idle
    /\ LET args == ExposureArg(<<"P">>, snap.input, Num(8007), <<>>)
       IN  ExposureDone("EnsureExposure", args,
                        [c |-> ensureProjectPublicExposure(World, args, {}), f |-> {}], 1)

\* cleanupProjectExposure({projectSlug: input}), no call failing
CleanupForSlug ==
    /\ pc = "sanitized"
    /\ lastOp.op # "CleanupExposure"
    /\ LET args == [projectSlug |-> snap.input, projectName |-> <<"P">>]
       IN  ExposureDone("CleanupExposure", args,
                        [c |-> cleanupProjectExposure(World, args, {}), f |-> {}], 1)

NextSanitize ==
    \/ SanitizeSlug
    \/ EnsureForSlug
    \/ CleanupForSlug

SpecSanitize == InitSanitize /\ [][NextSanitize]_vars

-----------------------------------------------------------------------------
(* The daemon reload procedure, command by command.  Every command is run by *)
(* tryExec, which reports whether it exited with status 0 and never throws.  *)

\* process.platform: win32 or not
Platforms == {"linux", "win32"}

ServiceManagers ==
    << [probe   |-> "command -v systemctl",
        reload  |-> "systemctl reload cloudflared",
        restart |-> "systemctl restart cloudflared"],
       [probe   |-> "command -v service",
        reload  |-> "service cloudflared reload",
        restart |-> "service cloudflared restart"] >>

ReloadSignals == <<"pkill -HUP -x cloudflared", "pkill -HUP -f cloudflared.*tunnel">>
ProcessProbes == <<"pgrep -x cloudflared", "pgrep -f cloudflared.*tunnel">>

\* the commands reloadCloudflared may run on a platform
CommandsOf(platform) ==
    IF platform = "win32"
    THEN {"sc query cloudflared", "sc stop cloudflared", "sc start cloudflared",
          "tasklist | find cloudflared.exe", "start /B cloudflared tunnel run"}
    ELSE UNION { {ServiceManagers[i].probe, ServiceManagers[i].reload,
                  ServiceManagers[i].restart} : i \in DOMAIN ServiceManagers }
         \cup Range(ReloadSignals) \cup Range(ProcessProbes)
         \cup {"nohup cloudflared tunnel run"}

\* a run of reloadCloudflared so far: the commands run, and whether it returned
Running(l)  == [returned |-> FALSE, log |-> l]
Returned(l) == [returned |-> TRUE, log |-> l]

\* tryExec(cmd): can tells which commands exit with status 0
tryExec(l, cmd, can) == Append(l, [call |-> cmd, arg |-> <<>>, ok |-> can[cmd]])
Exited0(l) == l[Len(l)].ok

\* if (await tryExec(probe)) { if (await tryExec(reload)) return;
\*                             if (await tryExec(restart)) return }
viaServiceManager(r, m, can) ==
    LET probed    == tryExec(r.log, m.probe, can)
        reloaded  == tryExec(probed, m.reload, can)
        restarted == tryExec(reloaded, m.restart, can)
    IN  IF r.returned THEN r
        ELSE IF ~Exited0(probed) THEN Running(probed)
        ELSE IF Exited0(reloaded) THEN Returned(reloaded)
        ELSE IF Exited0(restarted) THEN Returned(restarted)
        ELSE Running(restarted)

\* sc query; when it finds the service: sc stop, sc start, return
viaWindowsService(r, can) ==
    LET hasSc   == tryExec(r.log, "sc query cloudflared", can)
        stopped == tryExec(hasSc, "sc stop cloudflared", can)
        started == tryExec(stopped, "sc start cloudflared", can)
    IN  IF r.returned THEN r
        ELSE IF Exited0(hasSc) THEN Returned(started)
        ELSE Running(hasSc)

\* if (await tryExec(first)) return; if (await tryExec(second)) return
viaSignal(r, can) ==
    LET first  == tryExec(r.log, ReloadSignals[1], can)
        second == tryExec(first, ReloadSignals[2], can)
    IN  IF r.returned THEN r
        ELSE IF Exited0(first) THEN Returned(first)
        ELSE IF Exited0(second) THEN Returned(second)
        ELSE Running(second)

\* isProcessRunningCloudflared: the commands it runs, its value is Exited0 of the last
isProcessRunningCloudflared(l, platform, can) ==
    LET first  == tryExec(l, ProcessProbes[1], can)
        second == tryExec(first, ProcessProbes[2], can)
    IN  IF platform = "win32" THEN tryExec(l, "tasklist | find cloudflared.exe", can)
        ELSE IF Exited0(first) THEN first
        ELSE second

\* const running = await isProcessRunningCloudflared(); if (!running) start the daemon
startUnlessRunning(r, platform, can) ==
    LET probed == isProcessRunningCloudflared(r.log, platform, can)
        cmd    == IF platform = "win32" THEN "start /B cloudflared tunnel run"
                  ELSE "nohup cloudflared tunnel run"
    IN  IF r.returned THEN r
        ELSE IF Exited0(probed) THEN Returned(probed)
        ELSE Returned(tryExec(probed, cmd, can))

\* reloadCloudflared(configPath, tunnelUuid): the commands it runs, in order
reloadCommands(platform, can) ==
    IF platform = "win32"
    THEN startUnlessRunning(viaWindowsService(Running(<<>>), can), platform, can).log
    ELSE startUnlessRunning(
            viaSignal(
                viaServiceManager(
                    viaServiceManager(Running(<<>>), ServiceManagers[1], can),
                    ServiceManagers[2], can),
                can),
            platform, can).log

InitReload ==
    /\ IdleHost
    /\ zone = {}
    /\ cfgFile = File(Doc(TunnelUuid, TRUE, <<CatchAll404>>))
    /\ env = FullEnv
    /\ lastOp = NoOp
    /\ result = NoResult
    /\ log = <<>>
    /\ pc = "validated"
    /\ snap \in UNION { { [platform |-> p, can |-> c] : c \in [CommandsOf(p) -> BOOLEAN] } :
                         p \in Platforms }

\* await reloadCloudflared(configPath, tunnelUuid)
ReloadCloudflared ==
    /\ pc = "validated"
    /\ pc' = "reloaded"
    /\ log' = reloadCommands(snap.platform, snap.can)
    /\ lastOp' = Op("reloadCloudflared", <<snap.platform>>, {}, 1)
    /\ UNCHANGED <<storeVars, hostVars, netVars, env, result, snap>>

NextReload == ReloadCloudflared

SpecReload == InitReload /\ [][NextReload]_vars

-----------------------------------------------------------------------------
(* deployProject of a created project whose `docker compose up` fails, for   *)
(* every error text the command may end with                                 *)

\* how many fragments an error text is made of at most
MaxFragments == 2

\* the fragments deployProject looks for in an error text, and one it does not
ErrorFragments == {"maxBuffer length exceeded", "no such host", "dial tcp",
                   "permission denied", "not found", "image", "exit status 1"}

ErrorTexts == SeqsUpTo(ErrorFragments, MaxFragments) \ {<<>>}

InitUpError ==
    /\ projects = [id \in ProjectIds |-> NoRow]
    /\ envRows = [id \in ProjectIds |-> {}]
    /\ projDir = [id \in ProjectIds |-> NoDir]
    /\ containers = [id \in ProjectIds |-> "none"]
    /\ zone = {}
    /\ cfgFile = NoFile
    /\ env = FullEnv
    /\ lastOp = NoOp
    /\ result = NoResult
    /\ log = <<>>
    /\ pc = "new"
    /\ snap \in { [text |-> t] : t \in ErrorTexts }

\* the operation name(args) ran as c, the calls f failing
Ran(name, args, c, f) ==
    /\ projects' = c.w.projects
    /\ envRows' = c.w.envRows
    /\ projDir' = c.w.projDir
    /\ containers' = c.w.containers
    /\ zone' = c.w.zone
    /\ cfgFile' = c.w.cfgFile
    /\ log' = c.w.log
    /\ result' = Outcome(c)
    /\ lastOp' = Op(name, args, f, 1)
    /\ UNCHANGED <<env, snap>>

\* createProject(name, userId), no call failing
CreateForDeploy(id) ==
    /\ pc = "new"
    /\ pc' = "created"
    /\ \E input \in CreateInputs :
          Ran("createProject", <<id, input[1], input[2]>>,
              createProject(World, id, input[1], input[2], {}), {})

\* the place of `docker compose up` among the calls of a run
UpCalls(l) == {i \in DOMAIN l : l[i].call = "docker compose up"}

\* deployProject(id): `docker compose up` fails with the error text, no other call fails
DeployUpFailing(id) ==
    /\ pc = "created"
    /\ pc' = "deployed"
    /\ LET f == UpCalls(deployProject(World, id, snap.text, {}).w.log)
       IN  Ran("deployProject", <<id>>, deployProject(World, id, snap.text, f), f)

NextUpError ==
    \E id \in ProjectIds :
        \/ CreateForDeploy(id)
        \/ DeployUpFailing(id)

SpecUpError == InitUpError /\ [][NextUpError]_vars

-----------------------------------------------------------------------------
(* The preflight on its own, for every combination of probe outcomes *)

\* the commands of a preflight in which every command fails, in order
PreflightCommands == <<"docker --version", "docker compose version">> \o Probes

InitPreflight ==
    /\ IdleHost
    /\ zone = {}
    /\ cfgFile = NoFile
    /\ env = FullEnv
    /\ lastOp = NoOp
    /\ result = NoResult
    /\ log = <<>>
    /\ pc = "start"
    /\ snap \in { [failing |-> f] : f \in SUBSET DOMAIN PreflightCommands }

\* const checks = await checkDockerPrerequisites(): the commands numbered in
\* snap.failing exit with an error
CheckDockerPrerequisites ==
    /\ pc = "start"
    /\ pc' = "checked"
    /\ Ran("checkDockerPrerequisites", <<>>,
           checkDockerPrerequisites(World, snap.failing), snap.failing)

NextPreflight == CheckDockerPrerequisites

SpecPreflight == InitPreflight /\ [][NextPreflight]_vars

-----------------------------------------------------------------------------
(* deployProject and deleteProject of one project at once, no call being made *)
(* to fail.  A step is what a caller does between two awaits that the other   *)
(* caller can tell apart: one command, one store access, the preflight, or one *)
(* call of an exposure function (the requests inside one are the subject of    *)
(* the specification of two concurrent exposures above).                       *)

Overlapping == {"deploy", "delete"}

\* a caller's locals: the row it found, the preflight's flags, the EnvVar rows it
\* read, what the exposure returned, what the caller returned (<<>> until then),
\* and the callers that had returned when it started
NoLocalsYet == [project |-> NoRow, checks |-> <<>>, rows |-> {}, exposure |-> <<>>,
                ret |-> <<>>, after |-> {}]

InitOverlap ==
    /\ projects = [id \in ProjectIds |-> NoRow]
    /\ envRows = [id \in ProjectIds |-> {}]
    /\ projDir = [id \in ProjectIds |-> NoDir]
    /\ containers = [id \in ProjectIds |-> "none"]
    /\ zone = {}
    /\ cfgFile \in LifecycleDocs
    /\ env \in {FullEnv, [FullEnv EXCEPT !.INTERNAL_REVERSE_PROXY_URL = ProxyUrl]}
    /\ lastOp = NoOp
    /\ result = NoResult
    /\ log = <<>>
    /\ pc = [c \in Overlapping |-> "new"]
    /\ snap = [c \in Overlapping |-> NoLocalsYet]

\* the project both callers are about is created first, no call failing
CreateFirst(id) ==
    /\ \A c \in Overlapping : pc[c] = "new"
    /\ pc' = [c \in Overlapping |-> "find"]
    /\ \E input \in CreateInputs :
          Ran("createProject", <<id, input[1], input[2]>>,
              createProject(World, id, input[1], input[2], {}), {})

\* caller c made the calls of completion k: it goes on at label next with the
\* locals given, or, k having raised, returns { success: false, error }
Advance(c, k, next, locals) ==
    /\ projects' = k.w.projects
    /\ envRows' = k.w.envRows
    /\ projDir' = k.w.projDir
    /\ containers' = k.w.containers
    /\ zone' = k.w.zone
    /\ cfgFile' = k.w.cfgFile
    /\ log' = log \o k.w.log
    /\ IF k.ok
       THEN /\ pc' = [pc EXCEPT ![c] = next]
            /\ snap' = [snap EXCEPT ![c] = locals]
       ELSE /\ pc' = [pc EXCEPT ![c] = "returned"]
            /\ snap' = [snap EXCEPT ![c].ret = [success |-> FALSE, error |-> k.err]]
    /\ UNCHANGED <<env, lastOp, result>>

\* the callers that have returned
ReturnedCallers == {c \in Overlapping : pc[c] = "returned"}

\* prisma.project.findUnique of either function
FindOf(c, id) ==
    /\ pc[c] = "find"
    /\ LET k == findProject(World, id, {})
       IN  Advance(c, k, IF c = "deploy" THEN "patch" ELSE "down",
                   [snap[c] EXCEPT !.project = k.val, !.after = ReturnedCallers])

\* deployProject: patchComposePorts, its failure ignored
DeployPatch(id) ==
    /\ pc["deploy"] = "patch"
    /\ Advance("deploy", Swallow(patchComposePorts(World, id, {})), "preflight",
               snap["deploy"])

\* deployProject: the preflight and the two checks of its flags
DeployPreflight(id) ==
    /\ pc["deploy"] = "preflight"
    /\ LET checks == checkDockerPrerequisites(World, {})
           k == IF ~checks.val.docker THEN Throw(checks.w, DockerMissing)
                ELSE IF ~checks.val.dockerCompose THEN Throw(checks.w, ComposeMissing)
                ELSE checks
       IN  Advance("deploy", k, "compose", [snap["deploy"] EXCEPT !.checks = checks.val])

\* deployProject: docker compose pull and docker compose up
DeployCompose(id) ==
    /\ pc["deploy"] = "compose"
    /\ Advance("deploy",
               composeUp(World, id, snap["deploy"].checks, <<"exit status 1">>, {}),
               "rows", snap["deploy"])

\* deployProject: docker compose ps (its failure ignored) and projectEnvVar.findMany
DeployRows(id) ==
    /\ pc["deploy"] = "rows"
    /\ LET ps == Attempt(World, "docker compose ps", <<id>>, {}, HasCompose(World, id), Same)
           k  == Step(ps.w, "projectEnvVar.findMany", <<id>>, {}, TRUE,
                      Fault("projectEnvVar.findMany"), Same)
       IN  Advance("deploy", k, "expose", [snap["deploy"] EXCEPT !.rows = envRows[id]])

\* deployProject: ensureProjectPublicExposure for the row it found at the start
DeployExpose(id) ==
    /\ pc["deploy"] = "expose"
    /\ LET project == snap["deploy"].project
           k == ensureProjectPublicExposure(
                    Call(World, "ensureProjectPublicExposure", project.slug, {}),
                    ExposureArg(project.name, project.slug,
                                portOf(snap["deploy"].rows), internalProxy),
                    {})
       IN  Advance("deploy", k, "hostVar", [snap["deploy"] EXCEPT !.exposure = k.val])

\* deployProject: the upsert of PUBLIC_HOSTNAME
DeployHostVar(id) ==
    /\ pc["deploy"] = "hostVar"
    /\ Advance("deploy",
               upsertEnvVar(World, id, "PUBLIC_HOSTNAME", snap["deploy"].exposure.hostname, {}),
               "urlVar", snap["deploy"])

\* deployProject: the upsert of PUBLIC_URL
DeployUrlVar(id) ==
    /\ pc["deploy"] = "urlVar"
    /\ Advance("deploy",
               upsertEnvVar(World, id, "PUBLIC_URL", snap["deploy"].exposure.publicUrl, {}),
               "status", snap["deploy"])

\* deployProject: the status becomes active and the function returns
DeployStatus(id) ==
    /\ pc["deploy"] = "status"
    /\ Advance("deploy", updateStatus(World, id, "active", {}), "returned",
               [snap["deploy"] EXCEPT !.ret =
                   [success |-> TRUE, publicUrl |-> snap["deploy"].exposure.publicUrl]])

\* deleteProject, step 1: docker compose down, its failure ignored
DeleteDown(id) ==
    /\ pc["delete"] = "down"
    /\ Advance("delete",
               Attempt(World, "docker compose down", <<id>>, {}, HasCompose(World, id),
                       LAMBDA u : [u EXCEPT !.containers[id] = "none"]),
               "cleanup", snap["delete"])

\* deleteProject, step 2: cleanupProjectExposure, its failure ignored
DeleteCleanup(id) ==
    /\ pc["delete"] = "cleanup"
    /\ LET project == snap["delete"].project
       IN  Advance("delete",
                   Swallow(cleanupProjectExposure(
                       Call(World, "cleanupProjectExposure", project.slug, {}),
                       [projectSlug |-> project.slug, projectName |-> project.name], {})),
                   "rm", snap["delete"])

\* deleteProject, step 3: the project directory is removed, a failure ignored
DeleteRm(id) ==
    /\ pc["delete"] = "rm"
    /\ Advance("delete",
               Attempt(World, "rm -rf projectDir", <<id>>, {}, TRUE,
                       LAMBDA u : [u EXCEPT !.projDir[id] = NoDir]),
               "records", snap["delete"])

\* deleteProject, step 4: the rows are deleted and the function returns
DeleteRecords(id) ==
    /\ pc["delete"] = "records"
    /\ Advance("delete", removeRecords(World, id, {}), "returned",
               [snap["delete"] EXCEPT !.ret = [success |-> TRUE]])

NextOverlap ==
    \E id \in ProjectIds :
        \/ CreateFirst(id)
        \/ \E c \in Overlapping : FindOf(c, id)
        \/ DeployPatch(id)
        \/ DeployPreflight(id)
        \/ DeployCompose(id)
        \/ DeployRows(id)
        \/ DeployExpose(id)
        \/ DeployHostVar(id)
        \/ DeployUrlVar(id)
        \/ DeployStatus(id)
        \/ DeleteDown(id)
        \/ DeleteCleanup(id)
        \/ DeleteRm(id)
        \/ DeleteRecords(id)

SpecOverlap == InitOverlap /\ [][NextOverlap]_vars

-----------------------------------------------------------------------------
(* Claims about the exposure operations (checked under SpecExposure) *)

\* the rules of an ingress list whose hostname is h, compared case-insensitively
RulesFor(ingress, h) ==
    {i \in DOMAIN ingress :
        ingress[i].hostname # <<>> /\ ToLowerCase(ingress[i].hostname) = ToLowerCase(h)}

\* the rules of an ingress list that have no hostname
Hostless(ingress) == {i \in DOMAIN ingress : ingress[i].hostname = <<>>}

\* the rules with a hostname that the document on disk holds
HostRules(file) ==
    IF file.present /\ file.doc.hasIngress
    THEN {file.doc.ingress[i] : i \in DOMAIN file.doc.ingress \ Hostless(file.doc.ingress)}
    ELSE {}

Wrote(l) == \E i \in DOMAIN l : l[i].call = "writeFile config.yml" /\ l[i].ok
Made(l, c) == \E i \in DOMAIN l : l[i].call = c
Succeeded(l, c) == \E i \in DOMAIN l : l[i].call = c /\ l[i].ok

\* the second of two successive EnsureExposure calls with identical arguments,
\* both returning, the document being readable at the second
SecondEnsure ==
    /\ lastOp.op = "EnsureExposure" /\ lastOp.calls = 1 /\ result.ok
    /\ lastOp'.op = "EnsureExposure" /\ lastOp'.calls = 2 /\ result'.ok
    /\ lastOp'.args = lastOp.args
    /\ Succeeded(log', "readFile config.yml")

\* C7: two successive EnsureExposure calls with identical arguments leave exactly one
\* CNAME record for the hostname and exactly one ingress rule whose hostname equals it
\* (case-insensitively), and the second call leaves the zone and the document as the
\* first call left them.
C7_EnsureTwice ==
    [][SecondEnsure =>
          /\ zone' = zone
          /\ cfgFile' = cfgFile
          /\ Cardinality(DnsByName(zone', HostA)) = 1
          /\ Cardinality(RulesFor(cfgFile'.doc.ingress, HostA)) = 1]_vars

\* C7 witness: a second call has returned, in a zone and a document that also hold
\* another hostname's record and rule
C7_Witness ==
    /\ lastOp.op = "EnsureExposure" /\ lastOp.calls = 2 /\ result.ok
    /\ Succeeded(log, "readFile config.yml")
    /\ DnsByName(zone, HostO) # {}
    /\ RulesFor(cfgFile.doc.ingress, HostO) # {}
    /\ Made(log, "GET dns_records") /\ Wrote(log)

\* C8 (as claimed): after every write of the ingress document by EnsureExposure or
\* CleanupExposure the list holds exactly one rule without a hostname, that rule is the
\* last one, and its service is http_status:404.
C8_OneHostlessRuleLast ==
    (lastOp.op \in {"EnsureExposure", "CleanupExposure"} /\ Wrote(log)) =>
        LET ing == cfgFile.doc.ingress
        IN  /\ Hostless(ing) = {Len(ing)}
            /\ ing[Len(ing)].service = Http404

\* the zone and the document hold nothing for the hostname of the arguments
NothingExposed ==
    /\ DnsByName(zone, HostA) = {}
    /\ RulesFor(cfgFile.doc.ingress, HostA) = {}

\* C10 (as claimed): CleanupExposure for a hostname that has no DNS record and no
\* ingress rule completes without raising, issues no DNS delete or create, and leaves
\* the set of hostname rules of the ingress document unchanged.
C10_CleanupOfNothing ==
    [][(/\ Idle /\ lastOp'.op = "CleanupExposure"
        /\ env.BASE_DOMAIN # Unset /\ env.CF_TUNNEL_UUID # Unset
        /\ NothingExposed) =>
          /\ result'.ok
          /\ ~Made(log', "DELETE dns_records") /\ ~Made(log', "POST dns_records")
          /\ zone' = zone
          /\ HostRules(cfgFile') = HostRules(cfgFile)]_vars

\* C11 (as claimed): in CleanupExposure the DNS-record deletion and the ingress-rule
\* removal are each attempted whatever makes the other fail (API error, missing DNS
\* credentials, missing tunnel identifier, unreadable document), and neither failure
\* reaches the caller.  The DNS step is attempted when its list request is made (it
\* has credentials to make it with), the ingress step when the document is read.
C11_CleanupStepsIndependent ==
    [][(/\ Idle /\ lastOp'.op = "CleanupExposure"
        /\ env.BASE_DOMAIN # Unset) =>
          /\ result'.ok
          /\ Made(log', "readFile config.yml")
          /\ env.CF_API_TOKEN # Unset => Made(log', "GET dns_records")]_vars

\* the services of the rules an ingress list holds for hostname h
ServicesFor(ingress, h) == {ingress[i].service : i \in RulesFor(ingress, h)}

\* the target the arguments and the configuration of the model call for: the
\* internalUrl argument when it is a URL, else the configured proxy when it is a
\* URL, else the loopback address with the port, else none
ExpectedTarget(args) ==
    IF args.internalUrl = KongUrl THEN KongUrl
    ELSE IF env.INTERNAL_REVERSE_PROXY_URL = ProxyUrl THEN ProxyUrl
    ELSE IF args.port = Num(8007) THEN <<"http://127.0.0.1:", "8", "0", "0", "7">>
    ELSE <<>>

\* C18: EnsureExposure takes as service target the first available of the
\* internalUrl argument (not blank), the configured reverse-proxy URL (not blank)
\* and http://127.0.0.1:<port>: the rule it writes for the hostname carries that
\* target; when none is available it fails before any DNS record or ingress
\* document is read or written
C18_ServiceTargetPrecedence ==
    [][(/\ lastOp'.op = "EnsureExposure"
        /\ env.BASE_DOMAIN # Unset /\ env.CF_TUNNEL_UUID # Unset)
       => LET target == ExpectedTarget(lastOp'.args)
          IN  /\ target = <<>> =>
                    /\ ~result'.ok
                    /\ result'.err =
                          <<"Cannot determine service URL: provide internalUrl or port">>
                    /\ log' = <<>>
                    /\ zone' = zone /\ cfgFile' = cfgFile
              /\ target # <<>> =>
                    /\ result'.err #
                          <<"Cannot determine service URL: provide internalUrl or port">>
                    /\ Wrote(log') => ServicesFor(cfgFile'.doc.ingress, HostA) = {target}]_vars

\* C18 witness: with a proxy configured and a port known, the internalUrl argument
\* was taken
C18_Witness ==
    /\ lastOp.op = "EnsureExposure" /\ result.ok
    /\ lastOp.args.internalUrl = KongUrl
    /\ env.INTERNAL_REVERSE_PROXY_URL = ProxyUrl
    /\ Wrote(log)
    /\ ServicesFor(cfgFile.doc.ingress, HostA) = {KongUrl}

-----------------------------------------------------------------------------
(* Claims about concurrent exposure (checked under SpecRace) *)

\* C9 (as claimed): when EnsureExposure for two different hostnames run concurrently
\* and both return successfully, the final ingress document holds exactly one rule
\* for each of the two hostnames, followed by a single trailing catch-all.
C9_BothRulesAfterRace ==
    (\A c \in Callers : pc[c] = "done" /\ ~snap[c].readFault) =>
        LET ing == cfgFile.doc.ingress
        IN  /\ \A c \in Callers : Cardinality(RulesFor(ing, RaceHost(c))) = 1
            /\ Hostless(ing) = {Len(ing)}
            /\ ing[Len(ing)] = CatchAll404

-----------------------------------------------------------------------------
(* Claims about two created projects (checked under SpecPair) *)

\* the variables of the environment set that hold host ports
PortKeys == {"POSTGRES_PORT", "POOLER_PROXY_PORT_TRANSACTION", "KONG_HTTP_PORT",
             "KONG_HTTPS_PORT", "ANALYTICS_PORT", "STUDIO_PORT"}

\* the ports a project's EnvVar rows assign, and its base port
PortsOf(rows)    == {ParseInt(r.value).val : r \in {x \in rows : x.key \in PortKeys}}
BasePortOf(rows) == ParseInt(Lookup(rows, "KONG_HTTP_PORT")).val

\* C15 (as claimed): two createProject calls with different names at different
\* timestamps give different slugs, different base ports, and port sets (base,
\* +100, +443, +1000, +2000, +3000) that have no port in common.
C15_DistinctSlugsAndPorts ==
    (/\ \A id \in PairIds : pc[id] = "created"
     /\ snap["p1"].name # snap["p2"].name
     /\ snap["p1"].timestamp # snap["p2"].timestamp)
    => /\ projects["p1"].slug # projects["p2"].slug
       /\ BasePortOf(envRows["p1"]) # BasePortOf(envRows["p2"])
       /\ PortsOf(envRows["p1"]) \cap PortsOf(envRows["p2"]) = {}

-----------------------------------------------------------------------------
(* Claims about the Compose Template Patcher (checked under SpecPatcher) *)

\* content.split('\n')
RECURSIVE Lines(_)
Lines(t) ==
    IF \A i \in DOMAIN t : t[i] # Newline THEN <<t>>
    ELSE LET i == CHOOSE k \in DOMAIN t :
                     t[k] = Newline /\ \A j \in 1..(k - 1) : t[j] # Newline
         IN  <<SubSeq(t, 1, i - 1)>> \o Lines(SubSeq(t, i + 1, Len(t)))

\* C16 (as claimed): for every slug createProject can produce, also one that begins
\* with a generic container name, and every template, the identity rewrite applied
\* twice gives the document it gives applied once, and after one application each
\* known container's line names it by the slug-prefixed name.
C16_IdentityRewriteIdempotent ==
    \A id \in ProjectIds :
        /\ snap[id].applied = <<"identityRewrite", "identityRewrite">>
              => projDir[id].content = snap[id].before
        /\ snap[id].applied = <<"identityRewrite">>
              => \A i \in DOMAIN Lines(snap[id].template) :
                    \A m \in Range(containerMappings(projects[id].slug)) :
                       Lines(snap[id].template)[i] = ContainerNameKey \o m.original
                          => Lines(projDir[id].content)[i]
                                = ContainerNameKey \o m.replacement

\* a port-mapping line whose host:container pair is an entry of the table, bare or
\* quoted
TableMapping(line) ==
    \E e \in Range(PortTable), q \in {<<>>} \cup {<<c>> : c \in Quotes} :
        line = <<"-", " ">> \o q \o ToDigits(e[1]) \o <<":">> \o ToDigits(e[2]) \o q

\* the last operation applied to the file was patchComposePorts
JustPatched(id) ==
    /\ snap[id].applied # <<>>
    /\ snap[id].applied[Len(snap[id].applied)] = "patchComposePorts"

\* C17 (as claimed): patchComposePorts applied to a document it has already patched
\* changes nothing and writes nothing; on any document it rewrites only the
\* port-mapping lines whose host:container pair is one of the six table entries
\* and leaves every other line as it was, character for character.
C17_PortPatchExact ==
    \A id \in ProjectIds :
        JustPatched(id) =>
            LET old == Lines(snap[id].before)
                new == Lines(projDir[id].content)
            IN  /\ (\E i \in 1..(Len(snap[id].applied) - 1) :
                        snap[id].applied[i] = "patchComposePorts")
                      => ~snap[id].wrote /\ projDir[id].content = snap[id].before
                /\ Len(new) = Len(old)
                /\ \A i \in DOMAIN old : ~TableMapping(old[i]) => new[i] = old[i]

-----------------------------------------------------------------------------
(* Claims about the project lifecycle (checked under Spec) *)

\* the places of the log where call c was made / succeeded / failed
At(l, c)       == {i \in DOMAIN l : l[i].call = c}
OkAt(l, c)     == {i \in At(l, c) : l[i].ok}
FailedAt(l, c) == {i \in At(l, c) : ~l[i].ok}

\* the one call of S was made before the one call of T
Before(S, T) == Cardinality(S) = 1 /\ Cardinality(T) = 1 /\ \A i \in S, j \in T : i < j

\* the hostname a project is exposed under
HostOf(row) == Hostname(row.slug, env.BASE_DOMAIN)

\* C1: over the lifecycle operations Project.status changes only along the stated
\* edges: a new row starts as created, deployProject moves created or paused to
\* active, pauseProject moves active to paused, deleteProject removes the row
C1_StatusEdges ==
    [][\A id \in ProjectIds :
        LET from == projects[id].status
            to   == projects'[id].status
        IN  from # to =>
              \/ lastOp'.op = "createProject" /\ from = "none" /\ to = "created"
              \/ lastOp'.op = "deployProject" /\ from \in {"created", "paused"}
                                              /\ to = "active"
              \/ lastOp'.op = "pauseProject" /\ from = "active" /\ to = "paused"
              \/ lastOp'.op = "deleteProject" /\ to = "removed"]_vars

\* C2: when the preflight reports the runtime or the compose CLI missing,
\* deployProject returns success:false with the matching message, runs neither pull
\* nor up nor the exposure, and leaves the status and the EnvVar rows as they were
C2_PreflightFailsFast ==
    [][(/\ lastOp'.op = "deployProject"
        /\ FailedAt(log', "docker --version") \cup FailedAt(log', "docker compose version") # {})
       => /\ result'.ok
          /\ ~result'.val.success
          /\ result'.val.error = (IF FailedAt(log', "docker --version") # {}
                                  THEN DockerMissing ELSE ComposeMissing)
          /\ At(log', "docker compose pull") = {}
          /\ At(log', "docker compose up") = {}
          /\ At(log', "ensureProjectPublicExposure") = {}
          /\ projects' = projects
          /\ envRows' = envRows]_vars

C2_Witness ==
    /\ lastOp.op = "deployProject"
    /\ OkAt(log, "docker --version") # {}
    /\ FailedAt(log, "docker compose version") # {}
    /\ result.val.error = ComposeMissing
    /\ \E id \in ProjectIds : projects[id].status = "paused"

\* C3: deployProject writes the active status exactly when it returns success:true,
\* and then compose up, the exposure and the two upserts succeeded before, in this
\* order; publicUrl is https://<slug>.<BASE_DOMAIN> and is the stored PUBLIC_URL; a
\* deployProject that returns success:false leaves the status as it was
C3_ActiveIffSuccess ==
    [][lastOp'.op = "deployProject" =>
        LET id   == lastOp'.args[1]
            host == HostOf(projects[id])
        IN  /\ result'.ok
            /\ result'.val.success <=> OkAt(log', "project.update") # {}
            /\ result'.val.success =>
                 /\ projects'[id].status = "active"
                 /\ Before(OkAt(log', "docker compose up"),
                           At(log', "ensureProjectPublicExposure"))
                 /\ Before(At(log', "ensureProjectPublicExposure"),
                           OkAt(log', "reloadCloudflared"))
                 /\ Cardinality(OkAt(log', "projectEnvVar.upsert")) = 2
                 /\ \A i \in OkAt(log', "projectEnvVar.upsert") :
                       /\ \A j \in OkAt(log', "reloadCloudflared") : j < i
                       /\ \A j \in OkAt(log', "project.update") : i < j
                 /\ \E r \in DnsByName(zone', host) : r.content = TunnelTarget
                 /\ RulesFor(cfgFile'.doc.ingress, host) # {}
                 /\ result'.val.publicUrl = <<"https://">> \o host
                 /\ Lookup(envRows'[id], "PUBLIC_URL") = result'.val.publicUrl
                 /\ Lookup(envRows'[id], "PUBLIC_HOSTNAME") = host
            /\ ~result'.val.success => projects' = projects]_vars

C3_Witness ==
    /\ lastOp.op = "deployProject"
    /\ result.val.success
    /\ projects[lastOp.args[1]].status = "active"
    /\ Lookup(envRows[lastOp.args[1]], "PUBLIC_URL") = result.val.publicUrl
    /\ FailedAt(log, "docker compose pull") # {}

\* C4: whatever fails among container teardown, exposure cleanup and directory
\* removal, deleteProject attempts teardown, cleanup, removal and the store
\* deletion in this order; when the store deletion succeeds it returns
\* success:true and no Project row and no EnvVar row of the project remains
C4_DeleteBestEffort ==
    [][(/\ lastOp'.op = "deleteProject"
        /\ projects[lastOp'.args[1]].exists
        /\ OkAt(log', "project.findUnique") # {})
       => LET id == lastOp'.args[1]
          IN  /\ Before(At(log', "docker compose down"),
                        At(log', "cleanupProjectExposure"))
              /\ Before(At(log', "cleanupProjectExposure"),
                        At(log', "rm -rf projectDir"))
              /\ Before(At(log', "rm -rf projectDir"),
                        At(log', "projectEnvVar.deleteMany"))
              /\ (/\ OkAt(log', "projectEnvVar.deleteMany") # {}
                  /\ OkAt(log', "project.delete") # {})
                 => /\ result'.ok
                    /\ result'.val.success
                    /\ ~projects'[id].exists
                    /\ envRows'[id] = {}]_vars

C4_Witness ==
    /\ lastOp.op = "deleteProject"
    /\ FailedAt(log, "docker compose down") # {}
    /\ FailedAt(log, "GET dns_records") # {}
    /\ FailedAt(log, "writeFile config.yml") # {}
    /\ FailedAt(log, "rm -rf projectDir") # {}
    /\ result.val.success
    /\ projects[lastOp.args[1]] = Removed

\* the store deletion of deleteProject failed
StoreDeletionFailed(l) ==
    FailedAt(l, "projectEnvVar.deleteMany") \cup FailedAt(l, "project.delete") # {}

\* C5: when deleting the EnvVar rows or the Project row fails, deleteProject
\* returns success:false with "Failed to remove project from database", which no
\* other failure of deleteProject produces; the Project row still exists and the
\* cleanup already done stays done
C5_StoreFailureDistinct ==
    [][lastOp'.op = "deleteProject" =>
        LET id   == lastOp'.args[1]
            host == HostOf(projects[id])
        IN  /\ StoreDeletionFailed(log') =>
                 /\ result'.ok
                 /\ result'.val = [success |-> FALSE,
                                   error |-> <<"Failed to remove project from database">>]
                 /\ projects'[id].exists
                 /\ OkAt(log', "docker compose down") # {} => containers'[id] = "none"
                 /\ OkAt(log', "DELETE dns_records") # {} => DnsByName(zone', host) = {}
                 /\ OkAt(log', "writeFile config.yml") # {}
                      => RulesFor(cfgFile'.doc.ingress, host) = {}
                 /\ OkAt(log', "rm -rf projectDir") # {} => projDir'[id] = NoDir
            /\ (/\ ~result'.val.success
                /\ result'.val.error = <<"Failed to remove project from database">>)
               => StoreDeletionFailed(log')]_vars

C5_Witness ==
    /\ lastOp.op = "deleteProject"
    /\ OkAt(log, "DELETE dns_records") # {}
    /\ OkAt(log, "rm -rf projectDir") # {}
    /\ OkAt(log, "projectEnvVar.deleteMany") # {}
    /\ FailedAt(log, "project.delete") # {}
    /\ projects[lastOp.args[1]].status = "active"
    /\ envRows[lastOp.args[1]] = {}
    /\ projDir[lastOp.args[1]] = NoDir

\* every call of the run that failed is among the calls named cs
OnlyFailed(l, cs) == \A i \in DOMAIN l : ~l[i].ok => l[i].call \in cs

\* C12 (as claimed): when the validation of the ingress document fails after the
\* reconciled document was written, and nothing else fails, deployProject and
\* deleteProject still return success:true, and the document on disk keeps the
\* reconciled rules: one rule for the project's hostname after deployProject, none
\* after deleteProject
C12_ValidationFailureNonFatal ==
    [][(/\ lastOp'.op \in {"deployProject", "deleteProject"}
        /\ OkAt(log', "writeFile config.yml") # {}
        /\ FailedAt(log', "validate --config") # {}
        /\ OnlyFailed(log', {"validate -f", "validate --config"}))
       => LET host == HostOf(projects[lastOp'.args[1]])
          IN  /\ result'.ok
              /\ result'.val.success
              /\ Cardinality(RulesFor(cfgFile'.doc.ingress, host))
                    = (IF lastOp'.op = "deployProject" THEN 1 ELSE 0)]_vars


\* the EnvVar rows are the KEY=value pairs of the environment file
Mirrors(rows, dir) == rows = dir.envFile.vars

\* C13 (as claimed): after any sequence of successful createProject,
\* updateProjectEnvVars and deployProject calls the (key, value) EnvVar rows of the
\* project equal the pairs of its environment file: each successful call that
\* starts with the two equal (as they are before the project is created) ends
\* with the two equal
C13_StoreMirrorsEnvFile ==
    [][\A id \in ProjectIds :
        (/\ lastOp'.op \in {"createProject", "updateProjectEnvVars", "deployProject"}
         /\ lastOp'.args[1] = id
         /\ result'.ok /\ result'.val.success
         /\ Mirrors(envRows[id], projDir[id]))
        => Mirrors(envRows'[id], projDir'[id])]_vars

\* the keys of a set of pairs
Keys(rows) == {r.key : r \in rows}

\* C14: after a successful updateProjectEnvVars(id, S) the environment file holds
\* exactly the pairs of S; in the store every key of S has the value S gives it,
\* every row whose key is not in S is as it was, and no other row appeared
C14_UpdateReplacesFileUpsertsStore ==
    [][(/\ lastOp'.op = "updateProjectEnvVars"
        /\ result'.ok /\ result'.val.success)
       => LET id == lastOp'.args[1]
              S  == Range(lastOp'.args[2])
          IN  /\ projDir'[id].envFile.present
              /\ projDir'[id].envFile.vars = S
              /\ \A kv \in S : {r \in envRows'[id] : r.key = kv.key} = {kv}
              /\ \A r \in envRows[id] : r.key \notin Keys(S) => r \in envRows'[id]
              /\ Keys(envRows'[id]) = Keys(envRows[id]) \cup Keys(S)]_vars

\* C14 witness: an update that changed one stored value, added one key and left a
\* key it did not name in the store while the file lost it
C14_Witness ==
    /\ lastOp.op = "updateProjectEnvVars"
    /\ result.ok /\ result.val.success
    /\ LET id == lastOp.args[1]
       IN  /\ Lookup(envRows[id], "KONG_HTTP_PORT") = <<"7","0">>
           /\ Lookup(envRows[id], "JWT_SECRET") = <<"s">>
           /\ Lookup(envRows[id], "POSTGRES_PORT") = <<"1","1","0","0","3">>
           /\ "POSTGRES_PORT" \notin Keys(projDir[id].envFile.vars)
           /\ Lookup(envRows[id], "PUBLIC_URL") # <<>>

\* C19: pauseProject writes the paused status only after compose stop succeeded;
\* when compose stop fails or the project does not exist it returns success:false
\* and the status is as it was; in every case the DNS records, the ingress
\* document, the EnvVar rows and the project directory are as they were
C19_PauseFrame ==
    [][lastOp'.op = "pauseProject" =>
        LET id == lastOp'.args[1]
        IN  /\ projects'[id].status # projects[id].status =>
                  /\ projects'[id].status = "paused"
                  /\ Before(OkAt(log', "docker compose stop"),
                            OkAt(log', "project.update"))
            /\ OkAt(log', "project.update") # {} =>
                  /\ projects'[id].status = "paused"
                  /\ OkAt(log', "docker compose stop") # {}
            /\ (FailedAt(log', "docker compose stop") # {} \/ ~projects[id].exists) =>
                  /\ result'.ok
                  /\ ~result'.val.success
                  /\ projects' = projects
            /\ zone' = zone
            /\ cfgFile' = cfgFile
            /\ envRows' = envRows
            /\ projDir' = projDir]_vars

\* C19 witness: compose stop failed for a deployed project, which is still active,
\* exposed and in place
C19_Witness ==
    /\ lastOp.op = "pauseProject"
    /\ FailedAt(log, "docker compose stop") # {}
    /\ ~result.val.success
    /\ LET id == lastOp.args[1]
       IN  /\ projects[id].status = "active"
           /\ DnsByName(zone, HostOf(projects[id])) # {}
           /\ RulesFor(cfgFile.doc.ingress, HostOf(projects[id])) # {}
           /\ Lookup(envRows[id], "PUBLIC_URL") # <<>>
           /\ projDir[id].envFile.present

LifecycleOps == {"createProject", "updateProjectEnvVars", "deployProject",
                 "pauseProject", "deleteProject"}

\* C6: every lifecycle operation, for any project id and any failing calls, ends
\* by returning a result with a success flag, whose error is present exactly when
\* success is false; no fault escapes to the caller
C6_UniformResult ==
    lastOp.op \in LifecycleOps =>
        /\ result.ok
        /\ "success" \in DOMAIN result.val
        /\ result.val.success \in BOOLEAN
        /\ result.val.success <=> "error" \notin DOMAIN result.val

C6_Witness ==
    /\ lastOp.op = "deployProject"
    /\ FailedAt(log, "docker compose ps") # {}
    /\ FailedAt(log, "validate -f") # {}
    /\ FailedAt(log, "validate --config") # {}
    /\ result.ok
    /\ ~result.val.success

-----------------------------------------------------------------------------
(* Claims about hostname sanitization (checked under SpecSanitize) *)

\* what each character of a slug becomes in a hostname
SanitizedChar(c) ==
    CASE c = "M" -> <<"m">>
      [] c = "y" -> <<"y">>
      [] c = "2" -> <<"2">>
      [] c = "-" -> <<"-">>
      [] c = "U+0130" -> <<"i", "-">>
      [] OTHER -> <<"-">>

RECURSIVE Sanitized(_)
Sanitized(s) == IF s = <<>> THEN <<>> ELSE SanitizedChar(Head(s)) \o Sanitized(Tail(s))

\* the hostname an exposure operation looked up first
LookedUp(l) == l[CHOOSE i \in At(l, "GET dns_records") :
                    \A j \in At(l, "GET dns_records") : i <= j].arg

\* the characters of a slug whose lower-case form is longer than one code unit
Lengthening(s) == {i \in DOMAIN s : Len(ToLowerCase(<<s[i]>>)) > 1}

\* EnsureExposure and CleanupExposure use the hostname sanitized-slug "."
\* base-domain for a slug that is not empty
SameHostname ==
    /\ snap.input # <<>> /\ lastOp.op = "EnsureExposure" =>
          /\ result.ok
          /\ result.val.hostname = snap.out \o <<".">> \o env.BASE_DOMAIN
          /\ LookedUp(log) = result.val.hostname
    /\ snap.input # <<>> /\ lastOp.op = "CleanupExposure" =>
          /\ result.ok
          /\ LookedUp(log) = snap.out \o <<".">> \o env.BASE_DOMAIN

\* the sanitized slug holds only lowercase letters, digits and hyphens, each
\* character of the lower-cased slug outside [a-z0-9-] became a hyphen, and
\* sanitizing again changes nothing
SanitizedForm ==
    /\ Range(snap.out) \subseteq SlugChars
    /\ snap.out = Sanitized(snap.input)
    /\ snap.again = snap.out

\* C20 as stated, violated: for every input string hostname sanitization yields
\* a string of the same length, holding only lowercase letters, digits and
\* hyphens, in which each character outside [a-z0-9-] (after lower-casing) is
\* replaced by a hyphen; it is idempotent; EnsureExposure and CleanupExposure
\* given the same slug compute the same hostname sanitized-slug "." base-domain
C20_SanitizeKeepsLength ==
    pc = "sanitized" =>
        /\ Len(snap.out) = Len(snap.input)
        /\ SanitizedForm
        /\ SameHostname

\* C20, amended: the sanitized slug is as long as the lower-cased input, which
\* is the input's length plus one for every character whose lower-case form is
\* two code units long (none for an ASCII input); it holds only lowercase
\* letters, digits and hyphens, each character of the lower-cased input outside
\* [a-z0-9-] is replaced by a hyphen, sanitization is idempotent, and
\* EnsureExposure and CleanupExposure given the same non-empty slug compute the
\* same hostname sanitized-slug "." base-domain
C20_SanitizeToHostname ==
    pc = "sanitized" =>
        /\ Len(snap.out) = Len(ToLowerCase(snap.input))
        /\ Len(snap.out) = Len(snap.input) + Cardinality(Lengthening(snap.input))
        /\ SanitizedForm
        /\ SameHostname

\* "My_" was sanitized to "my-", EnsureExposure published my-.b.io and
\* CleanupExposure then looked the same hostname up
C20_Witness ==
    /\ pc = "sanitized"
    /\ snap.input = <<"M", "y", "_">>
    /\ snap.out = <<"m", "y", "-">>
    /\ lastOp.op = "CleanupExposure"
    /\ LookedUp(log) = <<"m", "y", "-", ".">> \o BaseDomain
    /\ zone = {}
    /\ cfgFile.present

-----------------------------------------------------------------------------
(* Claims about validation, reload and DNS requests of the exposure operations *)
(* (checked under SpecExposure)                                               *)

ExposureOps == {"EnsureExposure", "CleanupExposure"}

\* both forms of the validation command failed
ValidationFailed(l) == FailedAt(l, "validate --config") # {}

\* the calls at which the validation command succeeded
ValidatedAt(l) == OkAt(l, "validate -f") \cup OkAt(l, "validate --config")

\* every reload of the run came after a successful validation that came after
\* a successful write of the document
ReloadOnlyValidated(l) ==
    \A i \in At(l, "reloadCloudflared") :
        \E j \in OkAt(l, "writeFile config.yml"), k \in ValidatedAt(l) : j < k /\ k < i

\* the DNS reconciliation of EnsureExposure failed: a request of its failed, or it
\* had no credentials to make one with
DnsReconciliationFailed(l) ==
    \/ FailedAt(l, "GET dns_records") # {}
    \/ FailedAt(l, "PUT dns_records") # {}
    \/ FailedAt(l, "POST dns_records") # {}
    \/ env.CF_API_TOKEN = Unset

\* EnsureExposure leaves the document alone when its DNS reconciliation failed
EnsureStopsAtDns ==
    (lastOp'.op = "EnsureExposure" /\ DnsReconciliationFailed(log')) =>
        /\ ~result'.ok
        /\ cfgFile' = cfgFile
        /\ At(log', "readFile config.yml") = {}
        /\ At(log', "writeFile config.yml") = {}

\* C21 as stated, violated: in EnsureExposure and CleanupExposure the daemon
\* reload is attempted only after validation of the just-written document
\* succeeded; when validation fails no reload is attempted and the operation
\* reports the failure to its caller; EnsureExposure does not touch the document
\* when the DNS reconciliation failed
C21_ValidationFailureReported ==
    [][lastOp'.op \in ExposureOps =>
          /\ ReloadOnlyValidated(log')
          /\ ValidationFailed(log') =>
                /\ At(log', "reloadCloudflared") = {}
                /\ ~result'.ok
          /\ EnsureStopsAtDns]_vars

\* C21, amended: in EnsureExposure and CleanupExposure the daemon reload is
\* attempted only after validation of the just-written document succeeded; when
\* validation fails no reload is attempted, EnsureExposure raises the validation
\* error to its caller and CleanupExposure returns normally (its ingress step is
\* best-effort); EnsureExposure neither reads nor writes the document when the
\* DNS reconciliation failed
C21_ReloadOnlyAfterValidation ==
    [][lastOp'.op \in ExposureOps =>
          /\ ReloadOnlyValidated(log')
          /\ ValidationFailed(log') =>
                /\ At(log', "reloadCloudflared") = {}
                /\ lastOp'.op = "EnsureExposure" =>
                      /\ ~result'.ok
                      /\ result'.err =
                            <<"Command failed: cloudflared tunnel ingress validate">>
                /\ lastOp'.op = "CleanupExposure" => result'.ok
          /\ EnsureStopsAtDns]_vars

\* C21 witness: CleanupExposure wrote the document, both validation commands
\* failed, nothing was reloaded and the caller was told nothing
C21_Witness ==
    /\ lastOp.op = "CleanupExposure"
    /\ OkAt(log, "writeFile config.yml") # {}
    /\ FailedAt(log, "validate -f") # {}
    /\ ValidationFailed(log)
    /\ At(log, "reloadCloudflared") = {}
    /\ result.ok

\* the rules of an ingress list whose hostname is not h (case-insensitively), in
\* the order of the list
OtherRules(ingress, h) ==
    LET Other(r) == r.hostname # <<>> /\ ToLowerCase(r.hostname) # ToLowerCase(h)
    IN  SelectSeq(ingress, Other)

\* C27 (as claimed): EnsureExposure or CleanupExposure for hostname H keeps in the
\* ingress document every rule whose hostname differs (case-insensitively) from H,
\* with the same service and in the same relative order, for every initial
\* document (including rules of other hostnames whose service is
\* http_status:404) and also when the existing document cannot be read or parsed
\* at the moment of the call
C27_OtherRulesKept ==
    [][(/\ lastOp'.op \in ExposureOps
        /\ cfgFile.present /\ cfgFile.doc.hasIngress) =>
          /\ cfgFile'.present /\ cfgFile'.doc.hasIngress
          /\ OtherRules(cfgFile'.doc.ingress, HostA) = OtherRules(cfgFile.doc.ingress, HostA)]_vars

-----------------------------------------------------------------------------
(* Claims about the daemon reload procedure (checked under SpecReload) *)

GracefulReloads == {ServiceManagers[i].reload : i \in DOMAIN ServiceManagers}
Restarts ==
    {ServiceManagers[i].restart : i \in DOMAIN ServiceManagers}
    \cup {"sc stop cloudflared", "sc start cloudflared"}
ManagerProbes ==
    {ServiceManagers[i].probe : i \in DOMAIN ServiceManagers} \cup {"sc query cloudflared"}
DaemonStarts == {"start /B cloudflared tunnel run", "nohup cloudflared tunnel run"}
DaemonProbes == Range(ProcessProbes) \cup {"tasklist | find cloudflared.exe"}

\* the steps of the procedure, as opposed to the probes that choose among them
ReloadSteps == GracefulReloads \cup Restarts \cup Range(ReloadSignals) \cup DaemonStarts

AtAny(l, cs)   == {i \in DOMAIN l : l[i].call \in cs}
OkAtAny(l, cs) == {i \in AtAny(l, cs) : l[i].ok}

\* no step is run after a step that succeeded
StopsAtFirstSuccess(l) == \A i \in OkAtAny(l, ReloadSteps) : i = Len(l)

\* every restart follows a graceful reload that failed
RestartAfterFailedReload(l) ==
    \A i \in AtAny(l, Restarts) :
        \E j \in AtAny(l, GracefulReloads) \ OkAtAny(l, GracefulReloads) : j < i

\* a reload signal is sent only when no service manager was found
SignalOnlyUnmanaged(l) ==
    AtAny(l, Range(ReloadSignals)) # {} => OkAtAny(l, ManagerProbes) = {}

\* a daemon is started only when the procedure looked for a running one and
\* found none
StartOnlyWhenNotRunning(l) ==
    AtAny(l, DaemonStarts) # {} =>
        /\ AtAny(l, DaemonProbes) # {}
        /\ OkAtAny(l, DaemonProbes) = {}
        /\ \A i \in AtAny(l, DaemonProbes), j \in AtAny(l, DaemonStarts) : i < j

\* C22 (as claimed): the daemon reload procedure stops at the first step that
\* succeeds; a restart is attempted only after the graceful reload failed; the
\* reload signal is sent to the daemon process only when no service-manager
\* integration is available; a new daemon process is started only when no daemon
\* process is currently running
C22_ReloadLadder ==
    pc = "reloaded" =>
        /\ StopsAtFirstSuccess(log)
        /\ RestartAfterFailedReload(log)
        /\ SignalOnlyUnmanaged(log)
        /\ StartOnlyWhenNotRunning(log)

\* the record the list request returns first for the hostname, before the call
Existing == DnsFirst(zone, HostA)

\* the DNS write requests of a run
DnsWrites(l) ==
    At(l, "POST dns_records") \cup At(l, "PUT dns_records") \cup At(l, "DELETE dns_records")

\* C23: DNS reconciliation for a hostname issues exactly one create request when
\* no CNAME exists for it, exactly one update request when the existing record's
\* target differs from the tunnel target or its proxied flag is not true, and no
\* write request at all when the existing record already has the tunnel target
\* and is proxied; a failing list, create or update request makes the
\* reconciliation fail (with the provider's error, the zone and the ingress
\* document left as they were)
C23_DnsReconciliation ==
    [][(lastOp'.op = "EnsureExposure" /\ At(log', "GET dns_records") # {}) =>
          LET l == log'
          IN  /\ Cardinality(At(l, "GET dns_records")) = 1
              /\ (OkAt(l, "GET dns_records") # {} /\ DnsByName(zone, HostA) = {}) =>
                    /\ Cardinality(At(l, "POST dns_records")) = 1
                    /\ DnsWrites(l) = At(l, "POST dns_records")
                    /\ OkAt(l, "POST dns_records") # {} =>
                          /\ Cardinality(DnsByName(zone', HostA)) = 1
                          /\ DnsFirst(zone', HostA).content = TunnelTarget
                          /\ DnsFirst(zone', HostA).proxied
              /\ (/\ OkAt(l, "GET dns_records") # {} /\ DnsByName(zone, HostA) # {}
                  /\ (Existing.content # TunnelTarget \/ ~Existing.proxied)) =>
                    /\ Cardinality(At(l, "PUT dns_records")) = 1
                    /\ DnsWrites(l) = At(l, "PUT dns_records")
                    /\ OkAt(l, "PUT dns_records") # {} =>
                          zone' = (zone \ {Existing})
                                    \cup {CnameRecord(Existing.id, HostA, TunnelTarget)}
              /\ (/\ OkAt(l, "GET dns_records") # {} /\ DnsByName(zone, HostA) # {}
                  /\ Existing.content = TunnelTarget /\ Existing.proxied) =>
                    /\ DnsWrites(l) = {}
                    /\ zone' = zone
              /\ FailedAt(l, "GET dns_records") # {} =>
                    /\ ~result'.ok /\ result'.err = ApiError("list")
                    /\ DnsWrites(l) = {}
              /\ FailedAt(l, "POST dns_records") # {} =>
                    ~result'.ok /\ result'.err = ApiError("create")
              /\ FailedAt(l, "PUT dns_records") # {} =>
                    ~result'.ok /\ result'.err = ApiError("update")
              /\ DnsReconciliationFailed(l) => zone' = zone /\ cfgFile' = cfgFile]_vars

\* C23 witness: a record with the tunnel target that was not proxied has been
\* updated by one request, another hostname's record being left alone
C23_Witness ==
    /\ lastOp.op = "EnsureExposure" /\ result.ok
    /\ Cardinality(At(log, "PUT dns_records")) = 1
    /\ At(log, "POST dns_records") = {}
    /\ zone = {CnameRecord(1, HostA, TunnelTarget), CnameRecord(2, HostO, <<"other">>)}

-----------------------------------------------------------------------------
(* Claims about a failing compose up (checked under SpecUpError) *)

\* the message the spec selects for an error text
ExpectedUpError(text) ==
    IF "maxBuffer length exceeded" \in Range(text)
    THEN <<"Docker deployment generated too much output.">>
    ELSE IF "no such host" \in Range(text) \/ "dial tcp" \in Range(text)
    THEN <<"Network connectivity issue: Unable to reach Docker registry.">>
    ELSE IF "permission denied" \in Range(text)
    THEN <<"Docker permission denied.">>
    ELSE IF "image" \in Range(text) /\ "not found" \in Range(text)
    THEN <<"Required Docker images not found.">>
    ELSE IF "not found" \in Range(text)
    THEN <<"Docker or Docker Compose not found.">>
    ELSE <<"Docker deployment failed: ">> \o text

\* C24 (as claimed): when compose up fails in deployProject the returned error is
\* selected by the captured error text: buffer exceeded gives the too-much-output
\* message, "no such host" or "dial tcp" the network message, "permission
\* denied" the permission message, a missing binary ("not found" without
\* "image") the Docker-not-found message, a missing image ("image" and "not
\* found") the required-images-not-found message, and any other text "Docker
\* deployment failed: " followed by the raw message
C24_UpErrorClassified ==
    pc = "deployed" =>
        /\ result.ok
        /\ ~result.val.success
        /\ result.val.error = ExpectedUpError(snap.text)

-----------------------------------------------------------------------------
(* Claims about the preflight and the image pull of deployProject (checked   *)
(* under Spec)                                                               *)

ProbeCalls == {Probes[i][1] : i \in DOMAIN Probes}

\* the preflight found the runtime and the compose CLI
PreflightPassed(l) ==
    OkAt(l, "docker --version") # {} /\ OkAt(l, "docker compose version") # {}

\* the preflight reported the network reachable: one of its probes succeeded
NetworkReachable(l) == OkAtAny(l, ProbeCalls) # {}

\* the calls of a run that failed
FailedCalls(l) == {i \in DOMAIN l : ~l[i].ok}

\* C25: in deployProject the image pull is attempted if and only if the preflight
\* reported the network reachable; compose up is attempted exactly once, after
\* the pull if there was one, whether the pull was skipped, succeeded or failed;
\* a failed pull alone never makes deployProject return success:false: the run
\* ends as the run in which the pull succeeds ends, and with success:true when
\* the pull is the only call that failed and exposure is configured
C25_PullOnlyWhenReachable ==
    [][lastOp'.op = "deployProject" =>
          LET l     == log'
              id    == lastOp'.args[1]
              pulls == At(l, "docker compose pull")
              ups   == At(l, "docker compose up")
          IN  /\ PreflightPassed(l) =>
                    /\ pulls # {} <=> NetworkReachable(l)
                    /\ Cardinality(pulls) <= 1
                    /\ Cardinality(ups) = 1
                    /\ \A i \in pulls, j \in ups : i < j
              /\ ~PreflightPassed(l) => pulls = {} /\ ups = {}
              /\ (pulls # {} /\ pulls \subseteq lastOp'.faults) =>
                    LET other == deployProject(World, id, <<"exit status 1">>,
                                               lastOp'.faults \ pulls)
                    IN  /\ result'.ok /\ other.ok
                        /\ result'.val.success = other.val.success
                        /\ projects' = other.w.projects
                        /\ containers' = other.w.containers
              /\ (/\ pulls # {} /\ FailedCalls(l) = pulls
                  /\ env.BASE_DOMAIN # Unset /\ env.CF_TUNNEL_UUID # Unset
                  /\ env.CF_API_TOKEN # Unset) =>
                    /\ result'.val.success
                    /\ projects'[id].status = "active"]_vars

\* C25 witness: the pull failed, compose up ran once after it, the project is
\* deployed
C25_Witness ==
    /\ lastOp.op = "deployProject"
    /\ FailedAt(log, "docker compose pull") # {}
    /\ Before(FailedAt(log, "docker compose pull"), OkAt(log, "docker compose up"))
    /\ result.ok /\ result.val.success
    /\ projects[lastOp.args[1]].status = "active"
    /\ containers[lastOp.args[1]] = "running"

-----------------------------------------------------------------------------
(* Claims about the preflight (checked under SpecPreflight) *)

\* the network probes in the order the claim gives: the HTTP endpoints, the DNS
\* lookup, the ping, the registry pull
ProbeOrder == <<"curl --head", "curl --head", "curl --head",
                "nslookup", "ping", "docker pull">>

\* the network probes of a preflight run: what follows its first two commands
ProbesRun(l) == SubSeq(l, 3, Len(l))

\* C26: checkDockerPrerequisites never raises for any combination of probe
\* outcomes and reports three independent flags (a failed runtime probe does not
\* skip the compose-CLI or network probes); the network probes are tried in the
\* order HTTP endpoints, DNS lookup, ping, registry pull, no later probe is run
\* after one succeeds, and networkReachable is false exactly when every probe
\* failed
C26_PreflightNeverRaises ==
    pc = "checked" =>
        LET probes == ProbesRun(log)
        IN  /\ result.ok
            /\ Len(log) >= 3
            /\ log[1].call = "docker --version"
            /\ log[2].call = "docker compose version"
            /\ result.val.docker = log[1].ok
            /\ result.val.dockerCompose = log[2].ok
            /\ Len(probes) <= Len(ProbeOrder)
            /\ \A i \in DOMAIN probes :
                  /\ probes[i].call = ProbeOrder[i]
                  /\ probes[i].arg = <<Probes[i][2]>>
                  /\ probes[i].ok => i = Len(probes)
            /\ result.val.internetConnection = probes[Len(probes)].ok
            /\ ~result.val.internetConnection <=>
                  /\ Len(probes) = Len(ProbeOrder)
                  /\ \A i \in DOMAIN probes : ~probes[i].ok

\* C26 witness: the runtime probe failed, the compose CLI was found, and the
\* network was found reachable by the ping after the HTTP endpoints and the DNS
\* lookup had failed
C26_Witness ==
    /\ pc = "checked"
    /\ result.val = [docker |-> FALSE, dockerCompose |-> TRUE, internetConnection |-> TRUE]
    /\ Len(log) = 7
    /\ log[7].call = "ping" /\ log[7].ok
    /\ \A i \in 3..6 : ~log[i].ok

-----------------------------------------------------------------------------
(* Claims about deployProject and deleteProject at once (checked under        *)
(* SpecOverlap)                                                               *)

\* the hostname of the project both callers are about
OverlapHost ==
    LET input == CHOOSE i \in CreateInputs : TRUE
    IN  Hostname(sanitizeSlug(slugOf(input[1], input[2])), env.BASE_DOMAIN)

BothReturned == \A c \in Overlapping : pc[c] = "returned"

\* C28 (as claimed): with no external call failing, if deployProject and
\* deleteProject for the same project overlap in any interleaving of their steps,
\* then once both have returned and deleteProject reported success, no DNS
\* record and no ingress rule for the project's hostname remains and no running
\* containers of the project remain
C28_NothingOrphaned ==
    (BothReturned /\ snap["delete"].ret.success) =>
        /\ DnsByName(zone, OverlapHost) = {}
        /\ RulesFor(cfgFile.doc.ingress, OverlapHost) = {}
        /\ \A id \in ProjectIds : containers[id] # "running"

=============================================================================
